---- MODULE Spec2Model ----
(***************************************************************************)
(* Model of the task orchestrator (src/concurrent_processor.py) and of the *)
(* hierarchical reducer (src/chunked_summarization.py).                    *)
(*                                                                         *)
(* Python lists are 0-based; TLA+ sequences are 1-based.  chunk_index      *)
(* keeps its Python value, so slot chunk_index of a Python list is         *)
(* position chunk_index + 1 of the sequence that models it.                *)
(***************************************************************************)
EXTENDS Integers, Sequences, FiniteSets, TLC

\* ---------------------------------------------------------------- bounds
MaxChunks == 2
MaxPool == 2
MaxSummaries == 20

\* ------------------------------------------------------ program constants
BatchThreshold == 8
BatchSize == 6

\* ---------------------------------------------------------------- values
None == [kind |-> "None"]
EmptyStr == [kind |-> "empty_str"]
EmptyList == [kind |-> "empty_list"]

\* Python truthiness of the values that reach an `if x:` test.
Truthy(v) == v.kind \notin {"None", "empty_str", "empty_list"}

\* Chunk contents: ordinary text or the empty string.
Contents == {"text", ""}

\* What a collaborator call does: returns a usable value, returns an empty
\* value, or raises.
Outcomes == {"ok", "empty", "error"}

Min(a, b) == IF a < b THEN a ELSE b

RECURSIVE SelectNotNone(_)
SelectNotNone(s) ==
    IF s = <<>> THEN <<>>
    ELSE IF Head(s) # None THEN <<Head(s)>> \o SelectNotNone(Tail(s))
    ELSE SelectNotNone(Tail(s))

VARIABLES
    pc,             \* position of the caller's thread
    chunks,         \* the chunks argument
    max_workers,    \* self.max_workers
    is_shutdown,    \* whether self.executor has been shut down
    i,              \* index of the two submission loops
    futures,        \* the futures list of (task_type, chunk_index, future)
    unit,           \* per submitted future: state, result, collaborator calls
    k,              \* position of the collection loop in futures
    waits,          \* how each future.result(timeout=300) ended
    results,        \* the results dict
    ret,            \* the returned dict
    reducer_in,     \* argument of _create_final_summary
    reducer_out     \* [raised, val, calls] of _create_final_summary

\* State of the other components, each exercised by a specification of its
\* own.
VARIABLES
    lp,             \* the LargeDocumentProcessor's four size parameters
    text,           \* the text argument of _chunk_by_text
    doc,            \* the PDF behind filepath: readable or not, page texts
    seg_out,        \* what the segmenter produced
    cache_entry,    \* the cache file of the processed file's hash
    now,            \* the clock
    dp_file,        \* the file given to _process_single_file
    dp_ret,         \* what _process_single_file returned and how
    tr_in,          \* a reduction level and the texts it concatenates
    tr_out,         \* the summaries text handed to the collaborator
    rk_in,          \* the arguments of TitanEmbeddingHelper.hybrid_search
    rk_out,         \* what hybrid_search returned and by which path
    sn_in,          \* the arguments of _extract_best_snippet
    sn_out,         \* the snippet it returned
    ch_in,          \* a summarization query and what its collaborators do
    ch_out          \* the handler's answer and the calls it made

orchVars == <<chunks, max_workers, is_shutdown, i, futures, unit, k, waits,
              results, ret, reducer_in, reducer_out>>
segVars == <<lp, text, doc, seg_out>>
cacheVars == <<cache_entry, now, dp_file, dp_ret>>
truncVars == <<tr_in, tr_out>>
queryVars == <<rk_in, rk_out, sn_in, sn_out, ch_in, ch_out>>
extVars == <<segVars, cacheVars, truncVars, queryVars>>

vars == <<pc, chunks, max_workers, is_shutdown, i, futures, unit, k, waits,
          results, ret, reducer_in, reducer_out, lp, text, doc, seg_out,
          cache_entry, now, dp_file, dp_ret, tr_in, tr_out, rk_in, rk_out,
          sn_in, sn_out, ch_in, ch_out>>

\* The values of a component's variables while another component runs.
SegIdle == lp = None /\ text = <<>> /\ doc = None /\ seg_out = None
CacheIdle == cache_entry = None /\ now = 0 /\ dp_file = None /\ dp_ret = None
TruncIdle == tr_in = None /\ tr_out = None
RankIdle == rk_in = None /\ rk_out = None
SnippetIdle == sn_in = None /\ sn_out = None
ChatIdle == ch_in = None /\ ch_out = None
QueryIdle == RankIdle /\ SnippetIdle /\ ChatIdle

N == Len(chunks)

\* ------------------------------------------------------------------------
\* Hierarchical reducer (src/chunked_summarization.py)
\*
\* A text is a record tagged by kind.  The reduction collaborator's answer
\* to a prompt is the text [kind |-> "llm", ...] naming the prompt it
\* answers; a concatenation keeps its parts.  Every reducer operator returns
\* [raised, val, calls]: whether it raised, the value it returned, and the
\* collaborator calls it made, in order.  A call is recorded with the
\* value that the function making the call returned for it (out).
\* ------------------------------------------------------------------------

\* combined_summaries: one "[Section i+1: ...]\n summary" entry per input.
Sections(chunk_summaries) ==
    [j \in 1..Len(chunk_summaries) |->
        [section |-> chunk_summaries[j].chunk_index + 1,
         summary |-> chunk_summaries[j].summary]]

\* bedrock invoke_model, json.loads and ...['text'].strip()
InvokeModel(level, name, inputs, o) ==
    IF o = "error" THEN [raised |-> TRUE, val |-> None]
    ELSE IF o = "empty" THEN [raised |-> FALSE, val |-> EmptyStr]
    ELSE [raised |-> FALSE,
          val |-> [kind |-> "llm", level |-> level, name |-> name,
                   inputs |-> inputs]]

Call(level, name, inputs, o, out) ==
    [level |-> level, name |-> name, inputs |-> inputs, outcome |-> o,
     out |-> out]

CreateFallbackSummary(chunk_summaries) ==
    [kind |-> "fallback",
     label |-> "# Document Summary (Fallback Mode)",
     count |-> Len(chunk_summaries),
     parts |-> Sections(chunk_summaries)]

CreateFinalFromBatches(batch_summaries, o) ==
    LET inputs == [j \in 1..Len(batch_summaries) |->
                      [batch |-> j, summary |-> batch_summaries[j]]]
        r == InvokeModel("final", "final", inputs, o)
        out == IF r.raised
               THEN [kind |-> "joined", parts |-> batch_summaries]
               ELSE r.val
    IN [raised |-> FALSE, val |-> out,
        calls |-> <<Call("final", "final", inputs, o, out)>>]

CreateBatchSummary(batch, batch_name, o) ==
    LET inputs == Sections(batch)
        r == InvokeModel("batch", batch_name, inputs, o)
        out == IF r.raised THEN EmptyStr ELSE r.val
    IN [raised |-> FALSE, val |-> out,
        calls |-> <<Call("batch", batch_name, inputs, o, out)>>]

\* for i in range(0, len(chunk_summaries), batch_size): the batch that
\* starts at Python index i is chunk_summaries[i:i + batch_size].
BatchAt(chunk_summaries, s) ==
    SubSeq(chunk_summaries, s + 1, Min(s + BatchSize, Len(chunk_summaries)))

RECURSIVE BatchLoop(_, _, _)
\* The loop of _create_batched_final_summary from Python index s on:
\* returns [batch_summaries, calls].
BatchLoop(chunk_summaries, s, orc) ==
    IF s >= Len(chunk_summaries) THEN [batch_summaries |-> <<>>, calls |-> <<>>]
    ELSE LET b == CreateBatchSummary(BatchAt(chunk_summaries, s),
                                     (s \div BatchSize) + 1,
                                     orc.batch[(s \div BatchSize) + 1])
             rest == BatchLoop(chunk_summaries, s + BatchSize, orc)
         IN [batch_summaries |->
                (IF Truthy(b.val) THEN <<b.val>> ELSE <<>>)
                    \o rest.batch_summaries,
             calls |-> b.calls \o rest.calls]

CreateBatchedFinalSummary(chunk_summaries, orc) ==
    LET l == BatchLoop(chunk_summaries, 0, orc)
        bs == l.batch_summaries
    IN IF Len(bs) > 1
       THEN LET f == CreateFinalFromBatches(bs, orc.final)
            IN [raised |-> FALSE, val |-> f.val, calls |-> l.calls \o f.calls]
       ELSE IF Len(bs) = 1
       THEN [raised |-> FALSE, val |-> bs[1], calls |-> l.calls]
       ELSE [raised |-> FALSE,
             val |-> [kind |-> "const",
                      text |-> "Failed to create summary from batches"],
             calls |-> l.calls]

\* Variant of CreateFinalSummaryTry that batches from 8 summaries on.
CreateFinalSummaryTryFrom8(chunk_summaries, orc) ==
    IF Len(chunk_summaries) >= BatchThreshold
    THEN CreateBatchedFinalSummary(chunk_summaries, orc)
    ELSE LET inputs == Sections(chunk_summaries)
             r == InvokeModel("flat", "flat", inputs, orc.flat)
         IN [raised |-> r.raised, val |-> r.val,
             calls |-> <<Call("flat", "flat", inputs, orc.flat, r.val)>>]

\* The try block of _create_final_summary (lines 182-272).
CreateFinalSummaryTry(chunk_summaries, orc) ==
    IF Len(chunk_summaries) > BatchThreshold
    THEN CreateBatchedFinalSummary(chunk_summaries, orc)
    ELSE LET inputs == Sections(chunk_summaries)
             r == InvokeModel("flat", "flat", inputs, orc.flat)
         IN [raised |-> r.raised, val |-> r.val,
             calls |-> <<Call("flat", "flat", inputs, orc.flat, r.val)>>]

\* Variant of CreateFinalSummary without the except clause.
CreateFinalSummaryNoExcept(chunk_summaries, orc) ==
    CreateFinalSummaryTry(chunk_summaries, orc)

\* _create_final_summary: the try block, and the except clause that
\* returns the fallback summary.
CreateFinalSummary(chunk_summaries, orc) ==
    LET t == CreateFinalSummaryTry(chunk_summaries, orc)
    IN IF t.raised
       THEN LET out == CreateFallbackSummary(chunk_summaries)
            IN [raised |-> FALSE, val |-> out,
                calls |-> [j \in 1..Len(t.calls) |->
                              [t.calls[j] EXCEPT !.out = out]]]
       ELSE t

\* ConcurrentProcessor._create_final_summary_concurrent
CreateFinalSummaryConcurrent(chunk_summaries, orc) ==
    LET r == CreateFinalSummary(chunk_summaries, orc)
    IN IF r.raised
       THEN [raised |-> FALSE,
             val |-> [kind |-> "joined",
                      parts |-> [j \in 1..Len(chunk_summaries) |->
                                    chunk_summaries[j].summary]],
             calls |-> r.calls]
       ELSE r

\* The outcomes of the reduction collaborator calls that a reduction of n
\* chunk summaries can make: the flat call, or one call per batch and the
\* call over the batch summaries.  Outcomes of calls that cannot happen are
\* fixed.
NumBatches(n) == (n + BatchSize - 1) \div BatchSize
OraclesFor(n) ==
    IF n > BatchThreshold
    THEN [flat : {"ok"}, batch : [1..NumBatches(n) -> Outcomes],
          final : Outcomes]
    ELSE [flat : Outcomes, batch : {[b \in 1..NumBatches(n) |-> "ok"]},
          final : {"ok"}]

\* ------------------------------------------------------------------------
\* Task orchestrator (src/concurrent_processor.py)
\* ------------------------------------------------------------------------

\* ChunkedSummarizer._summarize_chunk: "" for content that strips to nothing
\* without calling the model, "" when the call raises, else the stripped
\* answer.
SummarizeChunk(chunk, chunk_index, o) ==
    IF chunk.content = "" THEN EmptyStr
    ELSE IF o = "ok" THEN [kind |-> "text", of |-> chunk_index]
    ELSE EmptyStr

\* Variant of SummarizeChunkWrapper that calls the summarizer a second time
\* when the first summary is empty.
SummarizeChunkWrapperRetry(chunk, chunk_index, o) ==
    LET summary == SummarizeChunk(chunk, chunk_index, o)
    IN [result |-> IF Truthy(summary)
                   THEN [kind |-> "chunk_summary",
                         chunk_index |-> chunk_index,
                         metadata |-> chunk.metadata,
                         summary |-> summary]
                   ELSE None,
        calls |-> IF Truthy(summary) THEN 1 ELSE 2]

\* _summarize_chunk_wrapper: [result, calls] where calls counts the
\* invocations of summarizer._summarize_chunk.
SummarizeChunkWrapper(chunk, chunk_index, o) ==
    LET summary == SummarizeChunk(chunk, chunk_index, o)
    IN [result |-> IF Truthy(summary)
                   THEN [kind |-> "chunk_summary",
                         chunk_index |-> chunk_index,
                         metadata |-> chunk.metadata,
                         summary |-> summary]
                   ELSE None,
        calls |-> 1]

\* embedding_helper.generate_single_embedding: a vector, [] or an exception.
GenerateSingleEmbedding(chunk_index, o) ==
    IF o = "error" THEN [raised |-> TRUE, val |-> None]
    ELSE IF o = "empty" THEN [raised |-> FALSE, val |-> EmptyList]
    ELSE [raised |-> FALSE, val |-> [kind |-> "embedding", of |-> chunk_index]]

\* _embed_chunk_wrapper
EmbedChunkWrapper(chunk, chunk_index, o) ==
    IF chunk.content # ""
    THEN LET e == GenerateSingleEmbedding(chunk_index, o)
         IN [result |-> IF e.raised THEN None ELSE e.val, calls |-> 1]
    ELSE [result |-> None, calls |-> 0]

\* results = {...} (lines 69-76)
NewResults(n) ==
    [summaries |-> [j \in 1..n |-> None],
     embeddings |-> [j \in 1..n |-> None],
     successful_summaries |-> 0, successful_embeddings |-> 0,
     failed_summaries |-> 0, failed_embeddings |-> 0]

\* Variant of OnResult that appends a usable result to the values stored
\* so far instead of storing it at chunk_index.
OnResultAppend(res, task_type, chunk_index, result) ==
    IF task_type = "summary"
    THEN IF Truthy(result)
         THEN [res EXCEPT !.summaries[res.successful_summaries + 1] = result,
                          !.successful_summaries = @ + 1]
         ELSE [res EXCEPT !.failed_summaries = @ + 1]
    ELSE IF Truthy(result)
         THEN [res EXCEPT !.embeddings[res.successful_embeddings + 1] = result,
                          !.successful_embeddings = @ + 1]
         ELSE [res EXCEPT !.failed_embeddings = @ + 1]

\* Lines 83-99: what the collection loop does with a future's result.
OnResult(res, task_type, chunk_index, result) ==
    IF task_type = "summary"
    THEN IF Truthy(result)
         THEN [res EXCEPT !.summaries[chunk_index + 1] = result,
                          !.successful_summaries = @ + 1]
         ELSE [res EXCEPT !.failed_summaries = @ + 1]
    ELSE IF Truthy(result)
         THEN [res EXCEPT !.embeddings[chunk_index + 1] = result,
                          !.successful_embeddings = @ + 1]
         ELSE [res EXCEPT !.failed_embeddings = @ + 1]

\* Lines 101-107: what it does when future.result(timeout=300) raises.
OnException(res, task_type, chunk_index) ==
    IF task_type = "summary"
    THEN [res EXCEPT !.failed_summaries = @ + 1]
    ELSE [res EXCEPT !.failed_embeddings = @ + 1]

\* Line 110
SuccessfulSummaries(res) == SelectNotNone(res.summaries)

\* Variant of SuccessResult that reports success only when no unit failed.
SuccessResultStrict(res, final_summary, n) ==
    [success |-> (res.failed_summaries + res.failed_embeddings = 0),
     summary |-> final_summary,
     embeddings |-> res.embeddings,
     chunk_count |-> n,
     successful_summaries |-> res.successful_summaries,
     successful_embeddings |-> res.successful_embeddings,
     processing_method |-> "concurrent_processing"]

\* Lines 121-130 (processing_time, a wall-clock reading, is left out).
SuccessResult(res, final_summary, n) ==
    [success |-> TRUE,
     summary |-> final_summary,
     embeddings |-> res.embeddings,
     chunk_count |-> n,
     successful_summaries |-> res.successful_summaries,
     successful_embeddings |-> res.successful_embeddings,
     processing_method |-> "concurrent_processing"]

\* Lines 134-138
ErrorResult(e) ==
    [success |-> FALSE,
     summary |-> [kind |-> "error_message", error |-> e],
     error |-> e]

NoReduction == [raised |-> FALSE, val |-> None, calls |-> <<>>]

Chunks == [content : Contents, metadata : {"m"}]

Init ==
    /\ pc = "idle"
    /\ chunks \in UNION {[1..n -> Chunks] : n \in 0..MaxChunks}
    /\ max_workers \in 1..MaxPool
    /\ is_shutdown = FALSE
    /\ i = 0
    /\ futures = <<>>
    /\ unit = <<>>
    /\ k = 1
    /\ waits = <<>>
    /\ results = NewResults(Len(chunks))
    /\ ret = None
    /\ reducer_in = <<>>
    /\ reducer_out = NoReduction
    /\ SegIdle /\ CacheIdle /\ TruncIdle /\ QueryIdle

\* shutdown(): executor.shutdown(wait=True) returns once every unit is done.
Shutdown ==
    /\ pc \in {"idle", "returned"}
    /\ ~is_shutdown
    /\ \A u \in 1..Len(unit) : unit[u].state = "done"
    /\ is_shutdown' = TRUE
    /\ UNCHANGED <<pc, chunks, max_workers, i, futures, unit, k, waits,
                   results, ret, reducer_in, reducer_out>>
    /\ UNCHANGED extVars

\* Entry of process_document_concurrently (lines 41-46).
Begin ==
    /\ pc = "idle"
    /\ pc' = IF N = 0 THEN "collect" ELSE "submit_summary"
    /\ UNCHANGED <<chunks, max_workers, is_shutdown, i, futures, unit, k,
                   waits, results, ret, reducer_in, reducer_out>>
    /\ UNCHANGED extVars

\* executor.submit: raises once the executor is shut down (caught at line
\* 132), else queues the unit and returns at once.
Submit(task_type, next_pc) ==
    IF is_shutdown
    THEN /\ ret' = ErrorResult("cannot schedule new futures after shutdown")
         /\ pc' = "returned"
         /\ UNCHANGED <<chunks, max_workers, is_shutdown, i, futures, unit,
                        k, waits, results, reducer_in, reducer_out>>
    ELSE /\ futures' = Append(futures, [task_type |-> task_type,
                                        chunk_index |-> i,
                                        future |-> Len(futures) + 1])
         /\ unit' = Append(unit, [state |-> "queued", result |-> None,
                                  calls |-> 0])
         /\ IF i + 1 < N
            THEN i' = i + 1 /\ pc' = pc
            ELSE i' = 0 /\ pc' = next_pc
         /\ UNCHANGED <<chunks, max_workers, is_shutdown, k, waits, results,
                        ret, reducer_in, reducer_out>>

\* Lines 49-56
SubmitSummary ==
    /\ pc = "submit_summary"
    /\ Submit("summary", "submit_embedding")
    /\ UNCHANGED extVars

\* Lines 59-66
SubmitEmbedding ==
    /\ pc = "submit_embedding"
    /\ Submit("embedding", "collect")
    /\ UNCHANGED extVars

Running == {u \in 1..Len(unit) : unit[u].state = "running"}

\* A pool thread takes the oldest queued unit (ThreadPoolExecutor keeps at
\* most max_workers threads and a FIFO work queue).
StartUnit(u) ==
    /\ unit[u].state = "queued"
    /\ \A v \in 1..(u - 1) : unit[v].state # "queued"
    /\ Cardinality(Running) < max_workers
    /\ unit' = [unit EXCEPT ![u].state = "running"]
    /\ UNCHANGED <<pc, chunks, max_workers, is_shutdown, i, futures, k,
                   waits, results, ret, reducer_in, reducer_out>>
    /\ UNCHANGED extVars

\* The unit's wrapper runs to its end and the future gets its result.
FinishUnit(u) ==
    /\ unit[u].state = "running"
    /\ \E o \in Outcomes :
         LET f == futures[u]
             w == IF f.task_type = "summary"
                  THEN SummarizeChunkWrapper(chunks[f.chunk_index + 1],
                                             f.chunk_index, o)
                  ELSE EmbedChunkWrapper(chunks[f.chunk_index + 1],
                                         f.chunk_index, o)
         IN unit' = [unit EXCEPT ![u] = [state |-> "done",
                                         result |-> w.result,
                                         calls |-> @.calls + w.calls]]
    /\ UNCHANGED <<pc, chunks, max_workers, is_shutdown, i, futures, k,
                   waits, results, ret, reducer_in, reducer_out>>
    /\ UNCHANGED extVars

\* future.result(timeout=300) returns the result of a finished unit.
CollectResult ==
    /\ pc = "collect"
    /\ k <= Len(futures)
    /\ unit[k].state = "done"
    /\ results' = OnResult(results, futures[k].task_type,
                           futures[k].chunk_index, unit[k].result)
    /\ waits' = Append(waits, "result")
    /\ k' = k + 1
    /\ UNCHANGED <<pc, chunks, max_workers, is_shutdown, i, futures, unit,
                   ret, reducer_in, reducer_out>>
    /\ UNCHANGED extVars

\* Variant of CollectTimeout in which the timeout ends the collection loop.
CollectTimeoutAborts ==
    /\ pc = "collect"
    /\ k <= Len(futures)
    /\ unit[k].state # "done"
    /\ results' = OnException(results, futures[k].task_type,
                              futures[k].chunk_index)
    /\ waits' = Append(waits, "timeout")
    /\ k' = Len(futures) + 1
    /\ UNCHANGED <<pc, chunks, max_workers, is_shutdown, i, futures, unit,
                   ret, reducer_in, reducer_out>>
    /\ UNCHANGED extVars

\* future.result(timeout=300) raises TimeoutError: the unit is not done
\* when the timeout expires.  The unit itself is left as it is.
CollectTimeout ==
    /\ pc = "collect"
    /\ k <= Len(futures)
    /\ unit[k].state # "done"
    /\ results' = OnException(results, futures[k].task_type,
                              futures[k].chunk_index)
    /\ waits' = Append(waits, "timeout")
    /\ k' = k + 1
    /\ UNCHANGED <<pc, chunks, max_workers, is_shutdown, i, futures, unit,
                   ret, reducer_in, reducer_out>>
    /\ UNCHANGED extVars

\* Lines 109-130: the final summary and the returned dict.
Finish ==
    /\ pc = "collect"
    /\ k > Len(futures)
    /\ LET successful_summaries == SuccessfulSummaries(results)
       IN IF successful_summaries # <<>>
          THEN \E orc \in OraclesFor(Len(successful_summaries)) :
                 LET r == CreateFinalSummaryConcurrent(successful_summaries,
                                                       orc)
                 IN /\ reducer_in' = successful_summaries
                    /\ reducer_out' = r
                    /\ ret' = SuccessResult(results, r.val, N)
          ELSE /\ ret' = SuccessResult(results, None, N)
               /\ UNCHANGED <<reducer_in, reducer_out>>
    /\ pc' = "returned"
    /\ UNCHANGED <<chunks, max_workers, is_shutdown, i, futures, unit, k,
                   waits, results>>
    /\ UNCHANGED extVars

Next ==
    \/ Shutdown
    \/ Begin
    \/ SubmitSummary
    \/ SubmitEmbedding
    \/ \E u \in 1..Len(unit) : StartUnit(u)
    \/ \E u \in 1..Len(unit) : FinishUnit(u)
    \/ CollectResult
    \/ CollectTimeout
    \/ Finish

Spec == Init /\ [][Next]_vars

TypeOK ==
    /\ pc \in {"idle", "submit_summary", "submit_embedding", "collect",
               "returned"}
    /\ Len(unit) = Len(futures)
    /\ Cardinality(Running) <= max_workers

\* ------------------------------------------------------------------------
\* The reducer on its own: _create_final_summary applied to any list of
\* chunk summaries under any outcomes of the collaborator calls.
\* ------------------------------------------------------------------------

ChunkSummaryOf(chunk_index) ==
    [kind |-> "chunk_summary", chunk_index |-> chunk_index, metadata |-> "m",
     summary |-> [kind |-> "text", of |-> chunk_index]]

InitReducer ==
    /\ pc = "reduce"
    /\ chunks = <<>>
    /\ max_workers = 1
    /\ is_shutdown = FALSE
    /\ i = 0
    /\ futures = <<>>
    /\ unit = <<>>
    /\ k = 1
    /\ waits = <<>>
    /\ results = NewResults(0)
    /\ ret = None
    /\ reducer_in \in {[j \in 1..n |-> ChunkSummaryOf(j - 1)] :
                          n \in 0..MaxSummaries}
    /\ reducer_out = NoReduction
    /\ SegIdle /\ CacheIdle /\ TruncIdle /\ QueryIdle

Reduce ==
    /\ pc = "reduce"
    /\ \E orc \in OraclesFor(Len(reducer_in)) :
         reducer_out' = CreateFinalSummary(reducer_in, orc)
    /\ pc' = "reduced"
    /\ UNCHANGED <<chunks, max_workers, is_shutdown, i, futures, unit, k,
                   waits, results, ret, reducer_in>>
    /\ UNCHANGED extVars

NextReducer == Reduce

SpecReducer == InitReducer /\ [][NextReducer]_vars

\* ------------------------------------------------------------------------
\* Properties
\* ------------------------------------------------------------------------

\* The future that process_document_concurrently created for a chunk.
UnitFor(task_type, chunk_index) ==
    CHOOSE u \in 1..Len(futures) :
        /\ futures[u].task_type = task_type
        /\ futures[u].chunk_index = chunk_index

\* A unit failed: its wrapper gave no usable result (collaborator error or
\* empty result), or the wait for it timed out.
Failed(u) ==
    \/ (u <= Len(waits) /\ waits[u] = "timeout")
    \/ (unit[u].state = "done" /\ ~Truthy(unit[u].result))

\* The unit's wrapper produced a usable result.
Succeeded(u) == unit[u].state = "done" /\ Truthy(unit[u].result)

\* The call returned after submitting all 2N units.
Completed == pc = "returned" /\ Len(futures) = 2 * N

ChunkIndexes == 0..(N - 1)
\* C1: on return, the embedding slot of chunk i is None exactly when the
\* embed unit of chunk i failed, the summary slot of chunk i is None exactly
\* when its summarize unit failed, and the batch is not aborted (the result
\* is the ordinary one, with one slot per chunk).
C1_SlotNoneIffUnitFailed ==
    Completed =>
        /\ ret.success = TRUE
        /\ Len(results.summaries) = N
        /\ Len(results.embeddings) = N
        /\ ret.embeddings = results.embeddings
        /\ \A c \in ChunkIndexes :
             /\ (results.embeddings[c + 1] = None)
                    <=> Failed(UnitFor("embedding", c))
             /\ (results.summaries[c + 1] = None)
                    <=> Failed(UnitFor("summary", c))

\* C1 witness: a two-chunk batch has returned in which one unit's wait
\* timed out, one unit got no usable result from its collaborator, and the
\* two sibling units have their slots filled.
C1_Witness ==
    /\ Completed
    /\ N = 2
    /\ waits[UnitFor("summary", 0)] = "timeout"
    /\ waits[UnitFor("embedding", 1)] = "result"
    /\ Failed(UnitFor("embedding", 1))
    /\ results.summaries[2] # None
    /\ results.embeddings[1] # None

\* C2 as claimed: when every summarize unit and every embed unit of a batch
\* failed, the call returns an error result (success = FALSE).
C2_TotalFailureIsError ==
    (Completed /\ N > 0 /\ \A u \in 1..Len(futures) : Failed(u))
        => ret.success = FALSE

\* C3: a result with success = FALSE is returned only when no unit
\* succeeded; whenever some unit of the batch succeeded the result has
\* success = TRUE.
C3_SuccessUnlessNothingSucceeded ==
    pc = "returned" =>
        /\ (ret.success = FALSE => \A u \in 1..Len(unit) : ~Succeeded(u))
        /\ ((\E u \in 1..Len(unit) : Succeeded(u)) => ret.success = TRUE)

\* C3 witness: a batch returned in which one unit succeeded and another
\* failed.
C3_Witness ==
    /\ Completed
    /\ \E u \in 1..Len(unit) : Succeeded(u) /\ ~Failed(u)
    /\ \E u \in 1..Len(unit) : Failed(u)
    /\ ret.success = TRUE

\* C4 as claimed: when the call has returned, no submitted unit is still
\* queued or running.
C4_BarrierAtReturn ==
    pc = "returned" => \A u \in 1..Len(unit) : unit[u].state = "done"

C6_CountsReported ==
    Completed =>
        /\ ret.successful_summaries
             = N - Cardinality({c \in ChunkIndexes :
                                   Failed(UnitFor("summary", c))})
        /\ ret.successful_embeddings
             = N - Cardinality({c \in ChunkIndexes :
                                   Failed(UnitFor("embedding", c))})
        /\ ret.successful_summaries
             = Cardinality({j \in 1..N : results.summaries[j] # None})
        /\ ret.successful_embeddings
             = Cardinality({j \in 1..N : ret.embeddings[j] # None})
        /\ {"failed_summaries", "failed_embeddings"} \subseteq DOMAIN ret

RECURSIVE UsableSummariesFrom(_)
\* The chunk summaries of the summarize units that did not fail, from chunk
\* c on, in ascending chunk order.
UsableSummariesFrom(c) ==
    IF c >= N THEN <<>>
    ELSE (IF Failed(UnitFor("summary", c)) THEN <<>>
          ELSE <<[kind |-> "chunk_summary", chunk_index |-> c,
                  metadata |-> chunks[c + 1].metadata,
                  summary |-> [kind |-> "text", of |-> c]]>>)
         \o UsableSummariesFrom(c + 1)

IsText(v) == v.kind \in {"llm", "empty_str", "fallback", "joined", "const"}

\* A concatenation labeled as a fallback that contains every input.
LabeledFallbackOf(out, inputs) ==
    /\ out.kind = "fallback"
    /\ \A j \in 1..Len(inputs) :
         \E p \in 1..Len(out.parts) : out.parts[p].summary = inputs[j].summary

\* C8 as claimed: whenever a reduction collaborator call fails, at any
\* level, the output of that level is a concatenation labeled as a fallback
\* that contains every input summary of that level.
C8_FailedLevelFallsBack ==
    pc = "reduced" =>
        \A j \in 1..Len(reducer_out.calls) :
            reducer_out.calls[j].outcome = "error"
                => LabeledFallbackOf(reducer_out.calls[j].out,
                                     reducer_out.calls[j].inputs)

\* C9: _create_final_summary raises nothing and returns a text, whatever
\* the chunk summaries and the outcomes of the collaborator calls.
C9_ReducerAlwaysReturnsText ==
    pc = "reduced" => /\ reducer_out.raised = FALSE
                      /\ IsText(reducer_out.val)

\* C9 witness: a reduction whose flat collaborator call raised has
\* returned.
C9_Witness ==
    /\ pc = "reduced"
    /\ Len(reducer_in) > 0
    /\ Len(reducer_out.calls) = 1
    /\ reducer_out.calls[1].level = "flat"
    /\ reducer_out.calls[1].outcome = "error"
    /\ reducer_out.val.kind = "fallback"

\* C10: when every collaborator call succeeds with non-empty output, a
\* reduction of n chunk summaries makes 1 call if n <= 8 and ceil(n/6) + 1
\* calls if n > 8 (5 for n = 20); for n > 8 the batch calls come first, one
\* per consecutive slice of 6 summaries in input order (the last possibly
\* shorter), followed by the call over the batch summaries.
C10_CallCount ==
    LET n == Len(reducer_in)
        calls == reducer_out.calls
        nb == (n + 5) \div 6
    IN (pc = "reduced" /\ \A j \in 1..Len(calls) : calls[j].outcome = "ok")
        => /\ n <= 8 => Len(calls) = 1 /\ calls[1].level = "flat"
           /\ n > 8 =>
                /\ Len(calls) = nb + 1
                /\ \A b \in 1..nb :
                     /\ calls[b].level = "batch"
                     /\ calls[b].inputs =
                          Sections(SubSeq(reducer_in, 6 * (b - 1) + 1,
                                          Min(6 * b, n)))
                /\ calls[nb + 1].level = "final"
                /\ Len(calls[nb + 1].inputs) = nb
           /\ n = 20 => Len(calls) = 5

\* C10 witness: 20 chunk summaries were reduced with 5 successful calls.
C10_Witness ==
    /\ pc = "reduced"
    /\ Len(reducer_in) = 20
    /\ Len(reducer_out.calls) = 5
    /\ \A j \in 1..5 : reducer_out.calls[j].outcome = "ok"
    /\ reducer_out.val.kind = "llm"

\* ------------------------------------------------------------------------
\* Input limiting of the reduction levels (chunked_summarization.py)
\* ------------------------------------------------------------------------
\* A text is modelled by its length. tr_in holds the level and, for every
\* entry the level concatenates, the length of the entry: a section header,
\* a newline and the summary ("[Batch i]", a newline and the batch summary
\* at the final level).

MaxEntries == 3

\* max_input_size of each level.
FlatMaxInputSize == 16000
BatchMaxInputSize == 6000
FinalMaxInputSize == 8000

\* len("\n\n[Content truncated due to size limits]") and
\* len("\n\n[Content truncated]").
FlatMarkerLen == 40
ShortMarkerLen == 21

Levels == {"flat", "batch", "final"}

MaxInputSize(level) ==
    CASE level = "flat" -> FlatMaxInputSize
      [] level = "batch" -> BatchMaxInputSize
      [] level = "final" -> FinalMaxInputSize

MarkerLen(level) ==
    IF level = "flat" THEN FlatMarkerLen ELSE ShortMarkerLen

RECURSIVE SumLen(_)
SumLen(lens) ==
    IF lens = <<>> THEN 0 ELSE Head(lens) + SumLen(Tail(lens))

\* len("\n\n".join(entries))
JoinedLen(lens) ==
    IF lens = <<>> THEN 0 ELSE SumLen(lens) + 2 * (Len(lens) - 1)

\* if len(combined_text) > max_input_size:
\*     combined_text = combined_text[:max_input_size] + marker
\* kept is the length of the prefix of the concatenation that survives.
LimitInputAtBudget(level, len) ==
    IF len >= MaxInputSize(level)
    THEN [len |-> Min(len, MaxInputSize(level)) + MarkerLen(level),
          kept |-> Min(len, MaxInputSize(level)), marker |-> TRUE]
    ELSE [len |-> len, kept |-> len, marker |-> FALSE]

LimitInput(level, len) ==
    IF len > MaxInputSize(level)
    THEN [len |-> Min(len, MaxInputSize(level)) + MarkerLen(level),
          kept |-> Min(len, MaxInputSize(level)), marker |-> TRUE]
    ELSE [len |-> len, kept |-> len, marker |-> FALSE]

\* Entry lengths around the budgets: two entries of 2999, 3999 or 7999
\* characters and the separator make exactly 6000, 8000 or 16000.
EntryLens == {10, 2999, 3000, 3999, 4000, 7999, 8000}

OrchIdle ==
    /\ chunks = <<>>
    /\ max_workers = 1
    /\ is_shutdown = FALSE
    /\ i = 0
    /\ futures = <<>>
    /\ unit = <<>>
    /\ k = 1
    /\ waits = <<>>
    /\ results = NewResults(0)
    /\ ret = None
    /\ reducer_in = <<>>
    /\ reducer_out = NoReduction

InitTruncate ==
    /\ pc = "truncate"
    /\ OrchIdle /\ SegIdle /\ CacheIdle /\ QueryIdle
    /\ \E level \in Levels, n \in 1..MaxEntries :
         \E entries \in [1..n -> EntryLens] :
             tr_in = [level |-> level, entries |-> entries]
    /\ tr_out = None

TruncateInput ==
    /\ pc = "truncate"
    /\ tr_out' = LimitInput(tr_in.level, JoinedLen(tr_in.entries))
    /\ pc' = "truncated"
    /\ UNCHANGED <<orchVars, segVars, cacheVars, queryVars, tr_in>>

NextTruncate == TruncateInput

SpecTruncate == InitTruncate /\ [][NextTruncate]_vars

MaxParas == 3

NL == "\n"
SP == " "

\* The characters \s matches.
Whitespace == {SP, NL}

Rep(c, n) == [j \in 1..n |-> c]

MaxOf(S) == CHOOSE x \in S : \A y \in S : y <= x
MinOf(S) == CHOOSE x \in S : \A y \in S : x <= y

\* str.strip()
Strip(s) ==
    LET solid == {j \in 1..Len(s) : s[j] \notin Whitespace}
    IN IF solid = {} THEN <<>> ELSE SubSeq(s, MinOf(solid), MaxOf(solid))

\* s[-n:] for n > 0
Suffix(s, n) ==
    IF n >= Len(s) THEN s ELSE SubSeq(s, Len(s) - n + 1, Len(s))

\* The end of the match of \n\s*\n at position j of s, 0 if there is none:
\* \s* is greedy, so the match ends at the last newline of the whitespace
\* run that follows position j.
MatchEnd(s, j) ==
    LET run == {m \in (j + 1)..Len(s) :
                    \A q \in (j + 1)..m : s[q] \in Whitespace}
        ends == {m \in run : s[m] = NL}
    IN IF j <= Len(s) /\ s[j] = NL /\ ends # {} THEN MaxOf(ends) ELSE 0

\* re.split(r'\n\s*\n', s), scanning from position j with the current
\* paragraph starting at position from.
RECURSIVE SplitFrom(_, _, _)
SplitFrom(s, from, j) ==
    IF j > Len(s) THEN <<SubSeq(s, from, Len(s))>>
    ELSE IF MatchEnd(s, j) # 0
         THEN <<SubSeq(s, from, j - 1)>>
                  \o SplitFrom(s, MatchEnd(s, j) + 1, MatchEnd(s, j) + 1)
         ELSE SplitFrom(s, from, j + 1)

SplitParagraphs(s) == SplitFrom(s, 1, 1)

\* sep.join(parts)
RECURSIVE Join(_, _)
Join(parts, sep) ==
    IF parts = <<>> THEN <<>>
    ELSE IF Len(parts) = 1 THEN parts[1]
    ELSE parts[1] \o sep \o Join(Tail(parts), sep)

\* {**base_metadata, 'chunk_type': 'text_segment',
\*  'chunk_index': chunk_index, 'text_length': len(current_chunk)}
TextSegment(current_chunk, base_metadata, chunk_index) ==
    [content |-> Strip(current_chunk),
     metadata |-> [chunk_type |-> "text_segment",
                   chunk_index |-> chunk_index,
                   text_length |-> Len(current_chunk)] @@ base_metadata]

\* One iteration of the loop of _chunk_by_text over the paragraphs; st holds
\* chunks, current_chunk and chunk_index.
ChunkByTextStep(st, paragraph, base_metadata, p) ==
    IF Len(st.current_chunk) + Len(paragraph) > p.max_chunk_size
           /\ st.current_chunk # <<>>
    THEN LET emit == Len(st.current_chunk) >= p.min_chunk_size
             overlap_text == IF p.overlap_size > 0
                             THEN Suffix(st.current_chunk, p.overlap_size)
                             ELSE <<>>
         IN [chunks |-> IF emit
                        THEN Append(st.chunks,
                                    TextSegment(st.current_chunk,
                                                base_metadata,
                                                st.chunk_index))
                        ELSE st.chunks,
             chunk_index |-> IF emit THEN st.chunk_index + 1
                             ELSE st.chunk_index,
             current_chunk |-> overlap_text \o <<NL, NL>> \o paragraph]
    ELSE [st EXCEPT !.current_chunk =
              IF st.current_chunk # <<>>
              THEN st.current_chunk \o <<NL, NL>> \o paragraph
              ELSE paragraph]

RECURSIVE ChunkByTextLoop(_, _, _, _)
ChunkByTextLoop(st, paragraphs, base_metadata, p) ==
    IF paragraphs = <<>> THEN st
    ELSE ChunkByTextLoop(ChunkByTextStep(st, Head(paragraphs),
                                         base_metadata, p),
                         Tail(paragraphs), base_metadata, p)

\* _chunk_by_text(text, base_metadata) of a processor with parameters p
ChunkByText(t, base_metadata, p) ==
    LET st == ChunkByTextLoop([chunks |-> <<>>, current_chunk |-> <<>>,
                               chunk_index |-> 0],
                              SplitParagraphs(t), base_metadata, p)
    IN IF Strip(st.current_chunk) # <<>>
           /\ Len(st.current_chunk) >= p.min_chunk_size
       THEN Append(st.chunks,
                   TextSegment(st.current_chunk, base_metadata,
                               st.chunk_index))
       ELSE st.chunks

\* The metadata _chunk_by_pages gives the chunk of pages
\* start_page+1..end_page; page_range f"{start_page+1}-{end_page}" is the
\* pair of its two numbers, 'all' is AllPages.
PageRangeMetadata(start_page, end_page, chunk_index, total_pages) ==
    [source_file |-> "filepath",
     chunk_type |-> "page_range",
     page_range |-> [kind |-> "range", first |-> start_page + 1,
                     last |-> end_page],
     chunk_index |-> chunk_index,
     total_pages |-> total_pages,
     pages_in_chunk |-> end_page - start_page]

AllPages == [kind |-> "all"]

\* LargeDocumentProcessor(max_chunk_size, overlap_size, max_pages_per_chunk,
\* min_chunk_size)
LargeDocumentProcessor(max_size, overlap, max_pages, min_size) ==
    [max_chunk_size |-> max_size,
     overlap_size |-> overlap,
     max_pages_per_chunk |-> max_pages,
     min_chunk_size |-> min_size]

\* Inputs of _chunk_by_text: up to MaxParas paragraphs drawn from Paragraphs
\* and joined by one of ParagraphSeparators, under small size parameters;
\* and paragraphs of 80 and 95 characters under max_chunk_size 100,
\* overlap_size 10 and min_chunk_size 20.
Paragraphs ==
    {<<"a">>, <<"a", "a", "a">>, <<"a", SP, "b">>,
     <<"b", "b", "b", "b">>, <<"b", "b", "b", "b", "b", "b">>}

ParagraphSeparators == {<<NL, NL>>, <<NL, SP, NL>>}

SmallTexts ==
    {Join(paras, sep) :
        paras \in UNION {[1..n -> Paragraphs] : n \in 1..MaxParas},
        sep \in ParagraphSeparators}

SmallProcessors ==
    {LargeDocumentProcessor(mx, ov, 10, mn) :
        mx \in {3, 4}, ov \in {0, 1, 2}, mn \in {0, 2, 3}}

LongTexts ==
    {Join(<<Rep("a", 80), Rep("c", n)>>, <<NL, NL>>) : n \in {80, 95}}

LongProcessors == {LargeDocumentProcessor(100, 10, 10, 20)}

InitChunkText ==
    /\ pc = "chunk_text"
    /\ OrchIdle /\ CacheIdle /\ TruncIdle /\ QueryIdle
    /\ \/ lp \in SmallProcessors /\ text \in SmallTexts
       \/ lp \in LongProcessors /\ text \in LongTexts
    /\ doc = None
    /\ seg_out = None

\* A call of _chunk_by_text with the metadata of a page-range chunk.
ChunkText ==
    /\ pc = "chunk_text"
    /\ seg_out' = [page_chunks |-> <<>>,
                   chunks |-> ChunkByText(text,
                                          PageRangeMetadata(0, 10, 0, 20),
                                          lp)]
    /\ pc' = "text_chunked"
    /\ UNCHANGED <<orchVars, cacheVars, truncVars, queryVars, lp, text,
                   doc>>

NextChunkText == ChunkText

SpecChunkText == InitChunkText /\ [][NextChunkText]_vars

\* The contents of the emitted chunks, in order.
Emitted == [j \in 1..Len(seg_out.chunks) |-> seg_out.chunks[j].content]

\* sub in s
IsSubstring(sub, s) ==
    \E b \in 1..(Len(s) + 1) :
        /\ b + Len(sub) - 1 <= Len(s)
        /\ SubSeq(s, b, b + Len(sub) - 1) = sub

\* s.startswith(pre)
StartsWith(s, pre) ==
    Len(pre) <= Len(s) /\ SubSeq(s, 1, Len(pre)) = pre

\* The paragraphs of a text that hold more than whitespace, stripped.
SolidParagraphs(t) ==
    {Strip(SplitParagraphs(t)[j]) : j \in 1..Len(SplitParagraphs(t))}
        \ {<<>>}

\* C12: the chunks _chunk_by_text emits cover its input: for any
\* max_chunk_size, overlap_size and min_chunk_size every paragraph of the
\* input is found in the content of an emitted chunk.
C12_NoParagraphMissing ==
    pc = "text_chunked" =>
        \A para \in SolidParagraphs(text) :
            \E j \in 1..Len(Emitted) : IsSubstring(para, Emitted[j])

\* C13: an emitted chunk is longer than max_chunk_size only if it holds a
\* paragraph that alone is longer than max_chunk_size.
C13_WithinMaxChunkSize ==
    pc = "text_chunked" =>
        \A j \in 1..Len(Emitted) :
            Len(Emitted[j]) > lp.max_chunk_size =>
                \E para \in SolidParagraphs(text) :
                    /\ Len(para) > lp.max_chunk_size
                    /\ IsSubstring(para, Emitted[j])

\* C18: every chunk _chunk_by_text emits after another one begins with the
\* last overlap_size characters of that one; and with max_chunk_size 100,
\* overlap_size 10 and min_chunk_size 20 two paragraphs of 80 characters
\* give exactly 2 chunks, the second beginning with the last 10 characters
\* of the first.
C18_OverlapCarriedOver ==
    pc = "text_chunked" =>
        /\ \A j \in 1..(Len(Emitted) - 1) :
               lp.overlap_size > 0 =>
                   StartsWith(Emitted[j + 1],
                              Suffix(Emitted[j], lp.overlap_size))
        /\ (/\ text = Join(<<Rep("a", 80), Rep("c", 80)>>, <<NL, NL>>)
            /\ lp = LargeDocumentProcessor(100, 10, 10, 20))
               => /\ Len(Emitted) = 2
                  /\ StartsWith(Emitted[2], Suffix(Emitted[1], 10))

\* ------------------------------------------------------------------------
\* process_large_pdf (large_document_processor.py)
\* ------------------------------------------------------------------------
\* The PDF behind filepath is the sequence of its page texts and, for each
\* of the three PDF libraries, whether the library can open it.

MaxPages == 3

Digits == {"7"}

\* The last position of the whitespace run that starts at position j.
RunEnd(s, j) ==
    MaxOf({m \in j..Len(s) : \A q \in j..m : s[q] \in Whitespace})

\* re.sub(r'\s+', ' ', s), from position j on
RECURSIVE CollapseWhitespaceFrom(_, _)
CollapseWhitespaceFrom(s, j) ==
    IF j > Len(s) THEN <<>>
    ELSE IF s[j] \in Whitespace
         THEN <<SP>> \o CollapseWhitespaceFrom(s, RunEnd(s, j) + 1)
         ELSE <<s[j]>> \o CollapseWhitespaceFrom(s, j + 1)

\* re.sub(r'\n\s*\n\s*\n+', '\n\n', s), from position j on: a match starts
\* at a newline whose whitespace run holds at least two more newlines and
\* ends at the last of them.
RECURSIVE CollapseNewlinesFrom(_, _)
CollapseNewlinesFrom(s, j) ==
    IF j > Len(s) THEN <<>>
    ELSE LET later == {m \in (j + 1)..RunEnd(s, j) : s[m] = NL}
         IN IF s[j] = NL /\ Cardinality(later) >= 2
            THEN <<NL, NL>> \o CollapseNewlinesFrom(s, MaxOf(later) + 1)
            ELSE <<s[j]>> \o CollapseNewlinesFrom(s, j + 1)

\* re.sub(r'^\s*\d+\s*$', '', s, flags=re.MULTILINE) of a text without
\* newlines, which is what the first substitution leaves: the one line is
\* removed if it is a number between optional whitespace.
RemovePageNumber(s) ==
    LET digits == {j \in 1..Len(s) : s[j] \in Digits}
    IN IF /\ digits # {}
          /\ \A j \in 1..Len(s) : s[j] \in Digits \cup Whitespace
          /\ \A j \in MinOf(digits)..MaxOf(digits) : s[j] \in Digits
       THEN <<>>
       ELSE s

\* _clean_text
CleanText(s) ==
    Strip(RemovePageNumber(
              CollapseNewlinesFrom(CollapseWhitespaceFrom(s, 1), 1)))

\* _get_pdf_page_count: PyMuPDF, then pypdfium2, then 0
GetPdfPageCount(d) ==
    IF d.fitz_ok THEN Len(d.pages)
    ELSE IF d.pdfium_ok THEN Len(d.pages)
    ELSE 0

\* The page texts that hold more than whitespace.
NonBlank(pages) == SelectSeq(pages, LAMBDA t : Strip(t) # <<>>)

\* _extract_pdf_text: pypdfium2 unless it fails or finds nothing, then
\* pdfplumber, then PyMuPDF, then ""
ExtractPdfText(d) ==
    IF d.pdfium_ok /\ Strip(Join(d.pages, <<NL>>)) # <<>>
    THEN Strip(Join(d.pages, <<NL>>))
    ELSE IF d.plumber_ok THEN Join(NonBlank(d.pages), <<NL, NL>>)
    ELSE IF d.fitz_ok THEN Join(NonBlank(d.pages), <<NL, NL>>)
    ELSE <<>>

\* _process_small_document
ProcessSmallDocument(d) ==
    <<[content |-> ExtractPdfText(d),
       metadata |-> [source_file |-> "filepath",
                     chunk_type |-> "full_document",
                     page_range |-> AllPages,
                     chunk_index |-> 0,
                     total_chunks |-> 1]]>>

\* The loop of _chunk_by_pages from start_page on.
RECURSIVE ChunkByPagesFrom(_, _, _, _, _)
ChunkByPagesFrom(d, start_page, total_pages, p, page_chunks) ==
    IF start_page >= total_pages THEN page_chunks
    ELSE LET end_page == Min(start_page + p.max_pages_per_chunk,
                             total_pages)
             combined_text ==
                 CleanText(Join(SubSeq(d.pages, start_page + 1, end_page),
                                <<NL, NL>>))
         IN ChunkByPagesFrom(
                d, start_page + p.max_pages_per_chunk, total_pages, p,
                IF Strip(combined_text) # <<>>
                THEN Append(page_chunks,
                            [content |-> combined_text,
                             metadata |->
                                 PageRangeMetadata(start_page, end_page,
                                                   Len(page_chunks),
                                                   total_pages)])
                ELSE page_chunks)

\* _chunk_by_pages: reads the pages with PyMuPDF only; [] if that fails
ChunkByPages(d, total_pages, p) ==
    IF d.fitz_ok THEN ChunkByPagesFrom(d, 0, total_pages, p, <<>>)
    ELSE <<>>

\* The loop of process_large_pdf over the page chunks.
RECURSIVE FurtherChunk(_, _)
FurtherChunk(page_chunks, p) ==
    IF page_chunks = <<>> THEN <<>>
    ELSE LET page_chunk == Head(page_chunks)
         IN (IF Len(page_chunk.content) <= p.max_chunk_size
             THEN <<page_chunk>>
             ELSE ChunkByText(page_chunk.content, page_chunk.metadata, p))
                \o FurtherChunk(Tail(page_chunks), p)

\* process_large_pdf: the page chunks it made on the way and the chunks it
\* returns.
ProcessLargePdfStrict(d, p) ==
    LET total_pages == GetPdfPageCount(d)
    IN IF total_pages < p.max_pages_per_chunk
       THEN [page_chunks |-> <<>>, chunks |-> ProcessSmallDocument(d)]
       ELSE [page_chunks |-> ChunkByPages(d, total_pages, p),
             chunks |-> FurtherChunk(ChunkByPages(d, total_pages, p), p)]

ProcessLargePdf(d, p) ==
    LET total_pages == GetPdfPageCount(d)
    IN IF total_pages <= p.max_pages_per_chunk
       THEN [page_chunks |-> <<>>, chunks |-> ProcessSmallDocument(d)]
       ELSE [page_chunks |-> ChunkByPages(d, total_pages, p),
             chunks |-> FurtherChunk(ChunkByPages(d, total_pages, p), p)]

PageTexts ==
    {<<>>, <<"a">>, <<"7">>, <<"a", NL, NL, "b">>,
     <<"a", "a", SP, SP, "b", "b">>}

Documents ==
    {[fitz_ok |-> f, pdfium_ok |-> u, plumber_ok |-> b, pages |-> pages] :
        f \in BOOLEAN, u \in BOOLEAN, b \in BOOLEAN,
        pages \in UNION {[1..n -> PageTexts] : n \in 0..MaxPages}}

PdfProcessors ==
    {LargeDocumentProcessor(mx, 1, mp, mn) :
        mx \in {3, 4}, mp \in {1, 2}, mn \in {0, 2, 5}}

InitPdf ==
    /\ pc = "process_pdf"
    /\ OrchIdle /\ CacheIdle /\ TruncIdle /\ QueryIdle
    /\ lp \in PdfProcessors
    /\ doc \in Documents
    /\ text = <<>>
    /\ seg_out = None

ProcessPdf ==
    /\ pc = "process_pdf"
    /\ seg_out' = ProcessLargePdf(doc, lp)
    /\ pc' = "pdf_processed"
    /\ UNCHANGED <<orchVars, cacheVars, truncVars, queryVars, lp, text,
                   doc>>

NextPdf == ProcessPdf

SpecPdf == InitPdf /\ [][NextPdf]_vars

\* C14: in the chunk sequence process_large_pdf returns, every chunk other
\* than the last has content of at least min_chunk_size characters.
C14_NonFinalAtLeastMin ==
    pc = "pdf_processed" =>
        \A j \in 1..(Len(Emitted) - 1) :
            Len(Emitted[j]) >= lp.min_chunk_size

\* C15: the chunk at position j (counted from 0) of the list
\* process_large_pdf returns has chunk_index j.
C15_DenseChunkIndex ==
    pc = "pdf_processed" =>
        \A j \in 1..Len(seg_out.chunks) :
            seg_out.chunks[j].metadata.chunk_index = j - 1

\* C16: a document without pages, or whose page count no library can
\* obtain, makes process_large_pdf return an empty chunk sequence.
C16_NoPagesNoChunks ==
    (/\ pc = "pdf_processed"
     /\ \/ Len(doc.pages) = 0
        \/ ~doc.fitz_ok /\ ~doc.pdfium_ok)
        => seg_out.chunks = <<>>

\* The page count the libraries report, the number of ranges of
\* max_pages_per_chunk pages, and the first and last page (counted from 1)
\* of range r.
PageCount == IF doc.fitz_ok \/ doc.pdfium_ok THEN Len(doc.pages) ELSE 0
RangeCount ==
    (PageCount + lp.max_pages_per_chunk - 1) \div lp.max_pages_per_chunk
RangeFirst(r) == (r - 1) * lp.max_pages_per_chunk + 1
RangeLast(r) == Min(r * lp.max_pages_per_chunk, PageCount)

\* The text of range r after cleaning; a range is non-empty if its pages
\* could be read and hold more than whitespace and a page number.
RangeText(r) ==
    CleanText(Join(SubSeq(doc.pages, RangeFirst(r), RangeLast(r)),
                   <<NL, NL>>))
NonEmptyRanges ==
    {r \in 1..RangeCount : doc.fitz_ok /\ RangeText(r) # <<>>}

MaxNow == 9

\* cache_expire_days
CacheExpireDays == 7

\* The files handed to _process_single_file: a name, whether a file of that
\* name exists, and the text extraction finds in it.
Files ==
    {[name |-> "a.pdf", isfile |-> TRUE, text |-> <<"a", NL, NL, "b">>],
     [name |-> "b.pdf", isfile |-> TRUE, text |-> <<"b", "b">>],
     [name |-> "missing.pdf", isfile |-> FALSE, text |-> <<>>]}

\* _generate_hash: SHA-256 of the content, taken as free of collisions.
GenerateHash(file) == [sha256 |-> file.text]

Hashes == {GenerateHash(file) : file \in {f \in Files : f.isfile}}

\* s.split("\n\n"), scanning from position j with the current part starting
\* at position from
RECURSIVE SplitBlankLinesFrom(_, _, _)
SplitBlankLinesFrom(s, from, j) ==
    IF j > Len(s) THEN <<SubSeq(s, from, Len(s))>>
    ELSE IF j < Len(s) /\ s[j] = NL /\ s[j + 1] = NL
         THEN <<SubSeq(s, from, j - 1)>>
                  \o SplitBlankLinesFrom(s, j + 2, j + 2)
         ELSE SplitBlankLinesFrom(s, from, j + 1)

\* [chunk.strip() for chunk in text.split("\n\n") if chunk.strip()]
ParagraphChunks(t) ==
    LET parts == SplitBlankLinesFrom(t, 1, 1)
        kept == SelectSeq(parts, LAMBDA c : Strip(c) # <<>>)
    IN [j \in 1..Len(kept) |-> Strip(kept[j])]

\* What a cache file holds: the pickle of an object, or bytes that are no
\* pickle (a file cut short by a failed write).
Pickle(obj) == [kind |-> "pickle", obj |-> obj]
Garbage == [kind |-> "garbage"]

\* The cache file _save_cache writes at time t.
SavedEntry(chunk_list, t) ==
    [mtime |-> t,
     data |-> Pickle([kind |-> "dict", timestamp |-> t,
                      chunks |-> chunk_list])]

\* _save_cache at time t: the write succeeds, or open() fails and the file
\* is as before, or pickle.dump fails after open() truncated the file; the
\* exception is swallowed.
SaveCache(entry, chunk_list, t, outcome) ==
    CASE outcome = "ok" -> SavedEntry(chunk_list, t)
      [] outcome = "open_failed" -> entry
      [] outcome = "dump_failed" -> [mtime |-> t, data |-> Garbage]

SaveOutcomes == {"ok", "open_failed", "dump_failed"}

\* _load_cache
LoadCache(entry) ==
    IF entry.data.kind # "pickle" THEN <<>>
    ELSE IF entry.data.obj.kind = "dict"
         THEN IF "chunks" \in DOMAIN entry.data.obj
              THEN entry.data.obj.chunks
              ELSE <<>>
    ELSE IF entry.data.obj.kind = "list" THEN entry.data.obj.items
    ELSE <<>>

\* _is_cache_valid at time t
IsCacheValid(entry, t) ==
    IF entry = None THEN FALSE
    ELSE t - entry.mtime < CacheExpireDays

\* A cache directory left by an earlier run may hold entries in the old
\* format, a pickled list.
LegacyEntry(chunk_list) ==
    [mtime |-> 0,
     data |-> Pickle([kind |-> "list", items |-> chunk_list])]

InitCache ==
    /\ pc = "cache"
    /\ OrchIdle /\ SegIdle /\ TruncIdle /\ QueryIdle
    /\ cache_entry \in [Hashes -> {None, LegacyEntry(<<<<"a">>>>)}]
    /\ now = 0
    /\ dp_file = None
    /\ dp_ret = None

\* _process_single_file(file). dp_ret keeps the returned chunks together
\* with the cache file found and the time of the call.
ProcessSingleFile(file) ==
    /\ pc = "cache"
    /\ dp_file' = file
    /\ IF ~file.isfile
       THEN /\ dp_ret' = [chunks |-> <<>>, how |-> "invalid",
                          found |-> None, at |-> now]
            /\ UNCHANGED cache_entry
       ELSE LET file_hash == GenerateHash(file)
                entry == cache_entry[file_hash]
            IN IF IsCacheValid(entry, now)
               THEN /\ dp_ret' = [chunks |-> LoadCache(entry),
                                  how |-> "cache", found |-> entry,
                                  at |-> now]
                    /\ UNCHANGED cache_entry
               ELSE /\ dp_ret' = [chunks |-> ParagraphChunks(file.text),
                                  how |-> "extracted", found |-> entry,
                                  at |-> now]
                    /\ \E outcome \in SaveOutcomes :
                         cache_entry' =
                             [cache_entry EXCEPT ![file_hash] =
                                 SaveCache(entry,
                                           ParagraphChunks(file.text),
                                           now, outcome)]
    /\ UNCHANGED <<pc, orchVars, segVars, truncVars, queryVars, now>>

\* A day passes.
Tick ==
    /\ pc = "cache"
    /\ now < MaxNow
    /\ now' = now + 1
    /\ UNCHANGED <<pc, orchVars, segVars, truncVars, queryVars, cache_entry,
                   dp_file,
                   dp_ret>>

NextCache ==
    \/ \E file \in Files : ProcessSingleFile(file)
    \/ Tick

SpecCache == InitCache /\ [][NextCache]_vars

\* The call that just returned found an entry that _save_cache had written.
FoundSaved ==
    /\ dp_ret # None
    /\ dp_ret.found # None
    /\ dp_ret.found.data.kind = "pickle"
    /\ dp_ret.found.data.obj.kind = "dict"

\* C19: a lookup of a hash under which chunks were stored returns an equal
\* chunk sequence whenever now - storedAt <= cache_expire_days; once the
\* entry is older, the lookup is a miss: the file is extracted again and the
\* store that follows overwrites the entry.
C19_CacheRoundTrip ==
    FoundSaved =>
        LET storedAt == dp_ret.found.data.obj.timestamp
            entry == cache_entry[GenerateHash(dp_file)]
        IN /\ dp_ret.at - storedAt <= 7 =>
                  /\ dp_ret.how = "cache"
                  /\ dp_ret.chunks = dp_ret.found.data.obj.chunks
           /\ dp_ret.at - storedAt > 7 =>
                  /\ dp_ret.how = "extracted"
                  /\ entry.mtime >= dp_ret.at \/ entry = dp_ret.found

\* The call that just returned found an entry that cannot be read as
\* chunks.
FoundMalformed ==
    /\ dp_ret # None
    /\ dp_ret.found # None
    /\ dp_ret.found.data.kind # "pickle"

\* C20: when the cache entry of a file is unreadable or malformed,
\* _process_single_file extracts the file again and returns the freshly
\* computed chunks, as on a miss.
C20_CorruptEntryIsMiss ==
    FoundMalformed =>
        /\ dp_ret.how = "extracted"
        /\ dp_ret.chunks = ParagraphChunks(dp_file.text)

\* ------------------------------------------------------------------------
\* Hybrid ranking (embedding_helper.py)
\* ------------------------------------------------------------------------
\* A text is the sequence of the words \b\w+\b finds in it. A raw BM25 score
\* is an integer number of thousandths; a normalised BM25 score and a vector
\* score are integer numbers of ten-thousandths, so that bm25 / 10.0 is the
\* same integer read in the finer unit; a weight is a number of tenths and a
\* hybrid score a number of hundred-thousandths.

MaxDocs == 3

\* k1 = 1.2 in tenths, b = 0.75 in hundredths
BM25_K1 == 12
BM25_B == 75

\* 1.0 and the cap 10.0 in the units of the scores
One == 10000
BM25Cap == 10000

\* str.lower() on the words of the vocabulary
Lower(word) == IF word = "Cat" THEN "cat" ELSE word

\* The stop words of _preprocess_text met in the vocabulary.
StopWords == {"the", "and", "for"}

\* _preprocess_text
PreprocessText(words) ==
    LET lowered == [j \in 1..Len(words) |-> Lower(words[j])]
    IN SelectSeq(lowered, LAMBDA w : w \notin StopWords /\ Len(w) > 2)

\* Counter(terms)[term]
Count(terms, term) == Cardinality({j \in 1..Len(terms) : terms[j] = term})

TermsOf(terms) == {terms[j] : j \in 1..Len(terms)}

RECURSIVE SumOver(_, _)
SumOver(S, f) ==
    IF S = {} THEN 0
    ELSE LET x == CHOOSE y \in S : TRUE
         IN f[x] + SumOver(S \ {x}, f)

\* _get_avg_doc_length is total_length / len(documents); total_length:
TotalLength(documents) ==
    SumOver(1..Len(documents),
            [j \in 1..Len(documents) |->
                Len(PreprocessText(documents[j].content))])

\* The score of one term in _calculate_bm25_score, in thousandths:
\* (doc_freq * (k1 + 1)) / (doc_freq + k1 * (1 - b + b * (doc_length /
\* avg_doc_length))) * query_freq with avg_doc_length = total_length /
\* total_docs.
TermScore(query_freq, doc_freq, doc_length, total_docs, total_length) ==
    (1000 * query_freq * 100 * doc_freq * (BM25_K1 + 10) * total_length)
        \div (1000 * doc_freq * total_length
                  + BM25_K1 * ((100 - BM25_B) * total_length
                                   + BM25_B * doc_length * total_docs))

\* _calculate_bm25_score of a document for a query
CalculateBm25Score(query_terms, doc_terms, total_docs, total_length) ==
    LET matched == TermsOf(query_terms) \cap TermsOf(doc_terms)
    IN SumOver(matched,
               [t \in matched |->
                   TermScore(Count(query_terms, t), Count(doc_terms, t),
                             Len(doc_terms), total_docs, total_length)])

\* The stable sort results.sort(key=..., reverse=True): the first result of
\* the highest score, then the rest sorted the same way.
RECURSIVE SortByScore(_, _)
SortByScore(rs, field) ==
    IF rs = <<>> THEN <<>>
    ELSE LET top == CHOOSE j \in 1..Len(rs) :
                        /\ \A h \in 1..Len(rs) : rs[h][field] <= rs[j][field]
                        /\ \A h \in 1..(j - 1) : rs[h][field] < rs[j][field]
         IN <<rs[top]>>
                \o SortByScore(SubSeq(rs, 1, top - 1)
                                   \o SubSeq(rs, top + 1, Len(rs)), field)

\* results[:n]
Take(rs, n) == SubSeq(rs, 1, Min(n, Len(rs)))

\* bm25_search(query, documents, k)
Bm25SearchKeepZero(query, documents, limit) ==
    LET query_terms == PreprocessText(query)
        scored == [j \in 1..Len(documents) |->
                      [document |-> documents[j],
                       bm25_score |->
                           CalculateBm25Score(
                               query_terms,
                               PreprocessText(documents[j].content),
                               Len(documents), TotalLength(documents)),
                       search_type |-> "bm25"]]
    IN Take(SortByScore(scored, "bm25_score"), limit)

Bm25Search(query, documents, limit) ==
    LET query_terms == PreprocessText(query)
        scored == [j \in 1..Len(documents) |->
                      [document |-> documents[j],
                       bm25_score |->
                           CalculateBm25Score(
                               query_terms,
                               PreprocessText(documents[j].content),
                               Len(documents), TotalLength(documents)),
                       search_type |-> "bm25"]]
    IN Take(SortByScore(SelectSeq(scored, LAMBDA r : r.bm25_score > 0),
                        "bm25_score"), limit)

\* doc.get(key, default)
DocGet(d, key, default) == IF key \in DOMAIN d THEN d[key] ELSE default

\* np.dot of two vectors of one length
RECURSIVE Dot(_, _)
Dot(v, w) ==
    IF v = <<>> THEN 0 ELSE Head(v) * Head(w) + Dot(Tail(v), Tail(w))

\* np.linalg.norm: the embeddings used here have whole norms.
Norm(v) ==
    CHOOSE r \in 0..Dot(v, v) :
        r * r <= Dot(v, v) /\ (r + 1) * (r + 1) > Dot(v, v)

\* calculate_similarity, in ten-thousandths
CalculateSimilarity(embedding1, embedding2) ==
    LET min_len == Min(Len(embedding1), Len(embedding2))
        vec1 == SubSeq(embedding1, 1, min_len)
        vec2 == SubSeq(embedding2, 1, min_len)
    IN IF Norm(vec1) = 0 \/ Norm(vec2) = 0 THEN 0
       ELSE (One * Dot(vec1, vec2)) \div (Norm(vec1) * Norm(vec2))

\* vector_search(query_embedding, documents, k)
VectorSearch(query_embedding, documents, limit) ==
    LET embedded == SelectSeq(documents,
                              LAMBDA d : DocGet(d, "embedding", <<>>) # <<>>)
        scored == [j \in 1..Len(embedded) |->
                      [document |-> embedded[j],
                       vector_score |->
                           CalculateSimilarity(query_embedding,
                                               embedded[j].embedding),
                       search_type |-> "vector"]]
    IN Take(SortByScore(scored, "vector_score"), limit)

\* str(i)
Str(n) == <<"0", "1", "2", "3", "4", "5", "6", "7", "8", "9">>[n + 1]

\* {result['document'].get('document_id', str(i)): result
\*  for i, result in enumerate(results)}: the keys, and the result a key
\* maps to, which is the last one of that key.
ResultKey(rs, j) == DocGet(rs[j].document, "document_id", Str(j - 1))
ResultKeys(rs) == {ResultKey(rs, j) : j \in 1..Len(rs)}
ResultOf(rs, key) ==
    rs[MaxOf({j \in 1..Len(rs) : ResultKey(rs, j) = key})]

\* The orders in which a set can be iterated.
Orders(S) ==
    {o \in [1..Cardinality(S) -> S] :
        \A a, b \in 1..Cardinality(S) : a # b => o[a] # o[b]}

\* The result _combine_search_results builds for one document id.
CombinedResultUncapped(bm25_results, vector_results, bm25_weight, vector_weight, doc_id) ==
    LET bm25_result == IF doc_id \in ResultKeys(bm25_results)
                       THEN ResultOf(bm25_results, doc_id)
                       ELSE [bm25_score |-> 0, document |-> None]
        vector_result == IF doc_id \in ResultKeys(vector_results)
                         THEN ResultOf(vector_results, doc_id)
                         ELSE [vector_score |-> 0, document |-> None]
        bm25_score == bm25_result.bm25_score
        vector_score == vector_result.vector_score
    IN [document |-> IF bm25_result.document # None
                     THEN bm25_result.document
                     ELSE vector_result.document,
        bm25_score |-> bm25_score,
        vector_score |-> vector_score,
        hybrid_score |-> bm25_weight * bm25_score
                             + vector_weight * vector_score,
        search_type |-> "hybrid"]

CombinedResult(bm25_results, vector_results, bm25_weight, vector_weight, doc_id) ==
    LET bm25_result == IF doc_id \in ResultKeys(bm25_results)
                       THEN ResultOf(bm25_results, doc_id)
                       ELSE [bm25_score |-> 0, document |-> None]
        vector_result == IF doc_id \in ResultKeys(vector_results)
                         THEN ResultOf(vector_results, doc_id)
                         ELSE [vector_score |-> 0, document |-> None]
        bm25_score == IF bm25_result.bm25_score > 0
                      THEN Min(bm25_result.bm25_score, BM25Cap)
                      ELSE 0
        vector_score == vector_result.vector_score
    IN [document |-> IF bm25_result.document # None
                     THEN bm25_result.document
                     ELSE vector_result.document,
        bm25_score |-> bm25_score,
        vector_score |-> vector_score,
        hybrid_score |-> bm25_weight * bm25_score
                             + vector_weight * vector_score,
        search_type |-> "hybrid"]

\* _combine_search_results, iterating over the set of ids in order ids
CombineSearchResults(bm25_results, vector_results, bm25_weight, vector_weight, ids) ==
    [j \in 1..Len(ids) |->
        CombinedResult(bm25_results, vector_results, bm25_weight,
                       vector_weight, ids[j])]

\* hybrid_search: the results it can return, one for each order in which
\* _combine_search_results iterates over the set of candidate ids. fused
\* tells whether _combine_search_results was called.
HybridSearchByBm25(in) ==
    LET query_embedding == (IF in.query_embedding = None THEN in.generated
                            ELSE in.query_embedding).items
        bm25_results == Bm25Search(in.query, in.documents, in.k * 2)
        vector_results ==
            IF /\ query_embedding # <<>>
               /\ \E j \in 1..Len(in.documents) :
                      DocGet(in.documents[j], "embedding", <<>>) # <<>>
            THEN VectorSearch(query_embedding, in.documents, in.k * 2)
            ELSE <<>>
        all_doc_ids == ResultKeys(bm25_results) \cup ResultKeys(vector_results)
    IN IF vector_results = <<>>
       THEN {[results |-> Take(bm25_results, in.k), fused |-> FALSE]}
       ELSE {[results |->
                  Take(SortByScore(
                           CombineSearchResults(bm25_results, vector_results,
                                                in.bm25_weight,
                                                in.vector_weight, ids),
                           "bm25_score"), in.k),
              fused |-> TRUE] : ids \in Orders(all_doc_ids)}

HybridSearch(in) ==
    LET query_embedding == (IF in.query_embedding = None THEN in.generated
                            ELSE in.query_embedding).items
        bm25_results == Bm25Search(in.query, in.documents, in.k * 2)
        vector_results ==
            IF /\ query_embedding # <<>>
               /\ \E j \in 1..Len(in.documents) :
                      DocGet(in.documents[j], "embedding", <<>>) # <<>>
            THEN VectorSearch(query_embedding, in.documents, in.k * 2)
            ELSE <<>>
        all_doc_ids == ResultKeys(bm25_results) \cup ResultKeys(vector_results)
    IN IF vector_results = <<>>
       THEN {[results |-> Take(bm25_results, in.k), fused |-> FALSE]}
       ELSE {[results |->
                  Take(SortByScore(
                           CombineSearchResults(bm25_results, vector_results,
                                                in.bm25_weight,
                                                in.vector_weight, ids),
                           "hybrid_score"), in.k),
              fused |-> TRUE] : ids \in Orders(all_doc_ids)}

\* The documents handed to hybrid_search by SimpleChatHandler: each has a
\* document_id of its own and a content, and an embedding if one was stored
\* for it. The embeddings have a cosine of 0.6 and of -1 with the query
\* embedding (1, 0); the second is shorter than the query embedding.
DocumentIds == <<"d1", "d2", "d3", "d4", "d5">>

\* The contents and embeddings a document is made of; an empty embedding
\* stands for none stored.
DocKinds ==
    {<<<<"cat", "dog">>, <<>>>>,
     <<<<"cat", "dog">>, <<3, 4>>>>,
     <<<<"Cat", "cat", "the">>, <<>>>>,
     <<<<"Cat", "cat", "the">>, <<-1>>>>,
     <<<<"fox", "of">>, <<>>>>,
     <<<<"fox", "of">>, <<3, 4>>>>}

Document(id, content, embedding) ==
    IF embedding = <<>>
    THEN [document_id |-> id, content |-> content]
    ELSE [document_id |-> id, content |-> content, embedding |-> embedding]

DocumentLists ==
    UNION {{[j \in 1..n |-> Document(DocumentIds[j], ks[j][1], ks[j][2])] :
               ks \in [1..n -> DocKinds]} :
           n \in 0..MaxDocs}

Queries ==
    {<<"dog", "cat">>, <<"the", "owl">>, Rep("cat", 8)}

\* query_embedding: None, [] or [1, 0]
ListOf(items) == [kind |-> "list", items |-> items]
QueryEmbeddings == {None, ListOf(<<>>), ListOf(<<1, 0>>)}

\* (bm25_weight, vector_weight) in tenths
Weights == {<<5, 5>>, <<2, 8>>}

Limits == {1, 2}

InitRank ==
    /\ pc = "rank"
    /\ OrchIdle /\ SegIdle /\ CacheIdle /\ TruncIdle
    /\ SnippetIdle /\ ChatIdle
    /\ \E query \in Queries, documents \in DocumentLists,
          query_embedding \in QueryEmbeddings, w \in Weights,
          limit \in Limits :
           rk_in = [query |-> query,
                    documents |-> documents,
                    query_embedding |-> query_embedding,
                    generated |-> ListOf(<<1, 0>>),
                    bm25_weight |-> w[1],
                    vector_weight |-> w[2],
                    k |-> limit]
    /\ rk_out = None

\* The formatting loop of SimpleChatHandler.hybrid_search over the results
\* of the helper: result['hybrid_score'] raises KeyError on a result without
\* that field, and the handler's except branch answers with
\* _simple_text_search_fallback instead. bm25_score and vector_score are
\* read with a default of 0. The snippet of each line is left out here.
FormatResults(hybrid_results) ==
    IF \E j \in 1..Len(hybrid_results) :
           \/ "document" \notin DOMAIN hybrid_results[j]
           \/ "hybrid_score" \notin DOMAIN hybrid_results[j]
    THEN [kind |-> "fallback"]
    ELSE [kind |-> "results",
          items |-> [j \in 1..Len(hybrid_results) |->
                        [doc_id |-> hybrid_results[j].document.document_id,
                         hybrid_score |-> hybrid_results[j].hybrid_score,
                         bm25_score |-> DocGet(hybrid_results[j], "bm25_score", 0),
                         vector_score |->
                             DocGet(hybrid_results[j], "vector_score", 0)]]]

\* A direct call of TitanEmbeddingHelper.hybrid_search. Nothing in it raises
\* on these arguments, so the except branch is not taken.
Rank ==
    /\ pc = "rank"
    /\ \E out \in HybridSearch(rk_in) :
           rk_out' = [results |-> out.results,
                      fused |-> out.fused,
                      formatted |-> [kind |-> "none"]]
    /\ pc' = "ranked"
    /\ UNCHANGED <<orchVars, segVars, cacheVars, truncVars, rk_in, sn_in,
                   sn_out, ch_in, ch_out>>

\* SimpleChatHandler.hybrid_search over the documents in memory: it calls the
\* helper only with a query embedding that is not empty, and formats what the
\* helper returned.
ChatHybridSearch ==
    /\ pc = "rank"
    /\ rk_in.documents # <<>>
    /\ rk_in.query_embedding # None
    /\ rk_in.query_embedding.items # <<>>
    /\ \E out \in HybridSearch(rk_in) :
           rk_out' = [results |-> out.results,
                      fused |-> out.fused,
                      formatted |-> FormatResults(out.results)]
    /\ pc' = "formatted"
    /\ UNCHANGED <<orchVars, segVars, cacheVars, truncVars, rk_in, sn_in,
                   sn_out, ch_in, ch_out>>

NextRank == Rank \/ ChatHybridSearch

SpecRank == InitRank /\ [][NextRank]_vars

\* The fields a result of hybrid_search is expected to carry.
RankedResultFields == {"document", "bm25_score", "vector_score", "hybrid_score"}

\* C21: for every query, document set, weights and k, hybrid_search returns at
\* most k results, each document at most once, sorted in non-increasing order
\* of hybrid_score.
C21_AtMostKSortedByHybridScore ==
    pc \in {"ranked", "formatted"} =>
        LET rs == rk_out.results
        IN /\ Len(rs) <= rk_in.k
           /\ \A a, b \in 1..Len(rs) :
                  a # b => rs[a].document.document_id
                               # rs[b].document.document_id
           /\ \A j \in 1..Len(rs) : "hybrid_score" \in DOMAIN rs[j]
           /\ \A j \in 1..(Len(rs) - 1) :
                  rs[j].hybrid_score >= rs[j + 1].hybrid_score

\* C25: on the fusion path, bm25_score, vector_score and hybrid_score of every
\* result lie in [0, 1] when the weights sum to 1, whatever the embeddings.
C25_FusedScoresInUnitInterval ==
    (pc \in {"ranked", "formatted"} /\ rk_out.fused
         /\ rk_in.bm25_weight + rk_in.vector_weight = 10) =>
        \A j \in 1..Len(rk_out.results) :
            LET r == rk_out.results[j]
            IN /\ 0 <= r.bm25_score /\ r.bm25_score <= One
               /\ 0 <= r.vector_score /\ r.vector_score <= One
               /\ 0 <= r.hybrid_score /\ r.hybrid_score <= 10 * One

\* C29: every result of hybrid_search, on the fusion path and on the BM25-only
\* path alike, carries document, bm25_score, vector_score and hybrid_score, so
\* SimpleChatHandler.hybrid_search formats the results and does not fall to
\* its error fallback.
C29_ResultsCarryAllFields ==
    /\ pc \in {"ranked", "formatted"} =>
           \A j \in 1..Len(rk_out.results) :
               RankedResultFields \subseteq DOMAIN rk_out.results[j]
    /\ pc = "formatted" => rk_out.formatted.kind = "results"

\* The query embedding hybrid_search works with: the one it was given, or the
\* one it generated when it was given none.
QueryEmbeddingOf(in) ==
    (IF in.query_embedding = None THEN in.generated
     ELSE in.query_embedding).items

\* The BM25 score of document j of a call, in thousandths.
Bm25ScoreOf(in, j) ==
    CalculateBm25Score(PreprocessText(in.query),
                       PreprocessText(in.documents[j].content),
                       Len(in.documents), TotalLength(in.documents))

\* The score of the candidate of a document id in a candidate list, 0 if the
\* document is not among the candidates.
CandidateScore(candidates, doc_id, field) ==
    IF \E j \in 1..Len(candidates) :
           candidates[j].document.document_id = doc_id
    THEN LET j == CHOOSE h \in 1..Len(candidates) :
                      candidates[h].document.document_id = doc_id
         IN candidates[j][field]
    ELSE 0

\* C22: on the fusion path every returned document is in the union of the
\* BM25 candidates and the vector candidates, and its hybrid_score is
\* bm25_weight * min(bm25 / 10, 1) + vector_weight * vector_score, where a
\* term is 0 for a document absent from that candidate set.
C22_HybridScoreIsWeightedSum ==
    (pc \in {"ranked", "formatted"} /\ rk_out.fused) =>
        LET bm25_candidates ==
                Bm25Search(rk_in.query, rk_in.documents, rk_in.k * 2)
            vector_candidates ==
                VectorSearch(QueryEmbeddingOf(rk_in), rk_in.documents,
                             rk_in.k * 2)
        IN \A j \in 1..Len(rk_out.results) :
               LET r == rk_out.results[j]
                   id == r.document.document_id
                   bm25 == CandidateScore(bm25_candidates, id, "bm25_score")
                   vector ==
                       CandidateScore(vector_candidates, id, "vector_score")
               IN /\ \/ \E h \in 1..Len(bm25_candidates) :
                            bm25_candidates[h].document.document_id = id
                     \/ \E h \in 1..Len(vector_candidates) :
                            vector_candidates[h].document.document_id = id
                  /\ r.hybrid_score
                         = rk_in.bm25_weight * (IF bm25 > 10000 THEN 10000
                                                ELSE bm25)
                               + rk_in.vector_weight * vector

\* Two documents are returned by the fusion: one only among the BM25
\* candidates, with a BM25 score above the cap of 10, and one only among the
\* vector candidates.
C22_Witness ==
    /\ pc = "ranked"
    /\ rk_out.fused
    /\ \E a, b \in 1..Len(rk_out.results) :
           /\ "embedding" \notin DOMAIN rk_out.results[a].document
           /\ rk_out.results[a].bm25_score = 10000
           /\ Bm25ScoreOf(rk_in,
                  CHOOSE j \in 1..Len(rk_in.documents) :
                      rk_in.documents[j] = rk_out.results[a].document)
                  > 10000
           /\ rk_out.results[a].vector_score = 0
           /\ "embedding" \in DOMAIN rk_out.results[b].document
           /\ rk_out.results[b].bm25_score = 0
           /\ rk_out.results[b].vector_score # 0

\* No document of the call has a keyword match with the query, and every
\* document with an embedding has a nonzero similarity with the query.
NoKeywordMatchButSimilar(in) ==
    /\ \A j \in 1..Len(in.documents) : Bm25ScoreOf(in, j) = 0
    /\ \E j \in 1..Len(in.documents) : "embedding" \in DOMAIN in.documents[j]
    /\ \A j \in 1..Len(in.documents) :
           "embedding" \in DOMAIN in.documents[j] =>
               CalculateSimilarity(QueryEmbeddingOf(in),
                                   in.documents[j].embedding) # 0

\* C23: for a query with no keyword match in any document and a nonzero vector
\* similarity for the documents with embeddings, hybrid_search with weights
\* 0.5 and 0.5 returns the documents with embeddings, the k of highest
\* vector_score, in non-increasing vector_score.
C23_OrderedByVectorScoreAlone ==
    (/\ pc \in {"ranked", "formatted"}
     /\ rk_in.bm25_weight = 5 /\ rk_in.vector_weight = 5
     /\ NoKeywordMatchButSimilar(rk_in)) =>
        LET rs == rk_out.results
            embedded == {j \in 1..Len(rk_in.documents) :
                             "embedding" \in DOMAIN rk_in.documents[j]}
            returned == {j \in embedded :
                             \E h \in 1..Len(rs) :
                                 rs[h].document = rk_in.documents[j]}
        IN /\ rk_out.fused
           /\ Len(rs) = Min(rk_in.k, Cardinality(embedded))
           /\ Cardinality(returned) = Len(rs)
           /\ \A h \in 1..Len(rs) :
                  /\ rs[h].bm25_score = 0
                  /\ rs[h].vector_score
                         = CalculateSimilarity(QueryEmbeddingOf(rk_in),
                                               rs[h].document.embedding)
           /\ \A h \in 1..(Len(rs) - 1) :
                  rs[h].vector_score >= rs[h + 1].vector_score
           /\ \A j \in embedded \ returned, h \in 1..Len(rs) :
                  CalculateSimilarity(QueryEmbeddingOf(rk_in),
                                      rk_in.documents[j].embedding)
                      <= rs[h].vector_score

\* Two documents of different vector scores are returned for a query that
\* matches no keyword, the later document of the call first.
C23_Witness ==
    /\ pc = "ranked"
    /\ rk_in.bm25_weight = 5 /\ rk_in.vector_weight = 5
    /\ NoKeywordMatchButSimilar(rk_in)
    /\ Len(rk_out.results) = 2
    /\ rk_out.results[1].vector_score > rk_out.results[2].vector_score
    /\ rk_out.results[2].vector_score < 0
    /\ rk_out.results[1].document = rk_in.documents[2]
    /\ rk_out.results[2].document = rk_in.documents[1]

\* C24: if no document of the call has an embedding, the fusion is not
\* invoked and the result is the pure BM25 ranking: the documents of BM25
\* score > 0, the k of highest score, in non-increasing score. A document of
\* BM25 score 0 is never among the BM25 candidates.
C24_PureBm25WithoutEmbeddings ==
    pc \in {"ranked", "formatted"} =>
        LET rs == rk_out.results
            positive == {j \in 1..Len(rk_in.documents) :
                             Bm25ScoreOf(rk_in, j) > 0}
            returned == {j \in 1..Len(rk_in.documents) :
                             \E h \in 1..Len(rs) :
                                 rs[h].document = rk_in.documents[j]}
            bm25_candidates ==
                Bm25Search(rk_in.query, rk_in.documents, rk_in.k * 2)
        IN /\ (\A j \in 1..Len(rk_in.documents) :
                   "embedding" \notin DOMAIN rk_in.documents[j]) =>
                  /\ ~rk_out.fused
                  /\ Len(rs) = Min(rk_in.k, Cardinality(positive))
                  /\ returned \subseteq positive
                  /\ Cardinality(returned) = Len(rs)
                  /\ \A h \in 1..Len(rs) :
                         \E j \in returned :
                             /\ rs[h].document = rk_in.documents[j]
                             /\ rs[h].bm25_score = Bm25ScoreOf(rk_in, j)
                  /\ \A h \in 1..(Len(rs) - 1) :
                         rs[h].bm25_score >= rs[h + 1].bm25_score
                  /\ \A j \in positive \ returned, h \in 1..Len(rs) :
                         Bm25ScoreOf(rk_in, j) <= rs[h].bm25_score
           /\ \A j \in 1..Len(rk_in.documents) :
                  Bm25ScoreOf(rk_in, j) = 0 =>
                      \A h \in 1..Len(bm25_candidates) :
                          bm25_candidates[h].document # rk_in.documents[j]

\* Of three documents without embeddings one has no keyword match and is left
\* out, and the two others are returned, the later one first.
C24_Witness ==
    /\ pc = "ranked"
    /\ Len(rk_in.documents) = 3
    /\ \A j \in 1..3 : "embedding" \notin DOMAIN rk_in.documents[j]
    /\ \E j \in 1..3 : Bm25ScoreOf(rk_in, j) = 0
    /\ ~rk_out.fused
    /\ Len(rk_out.results) = 2
    /\ rk_out.results[1].bm25_score > rk_out.results[2].bm25_score
    /\ \E a, b \in 1..3 :
           /\ a < b
           /\ rk_out.results[1].document = rk_in.documents[b]
           /\ rk_out.results[2].document = rk_in.documents[a]

\* ------------------------------------------------------------------------
\* Snippet extraction of SimpleChatHandler (chat_handler.py)
\* ------------------------------------------------------------------------

\* A content is its length in characters and the places where words occur in
\* it; a snippet is the slice content[first:last] and the ellipses put around
\* it.
MaxOccurrences == 2

WindowSize == 400
Stride == 50
ScanMargin == 200
LeadContext == 100
FallbackLength == 300

\* word in content_lower[i:i+400]
WordInWindow(word, content, pos) ==
    \E o \in content.occurrences :
        /\ Lower(o.word) = word
        /\ pos <= o.at
        /\ o.at + Len(o.word) <= Min(pos + WindowSize, content.length)

\* sum(1 for word in query_words if word in snippet)
Matches(content, query_words, pos) ==
    Cardinality({j \in 1..Len(query_words) :
                     WordInWindow(query_words[j], content, pos)})

\* The loop for i in range(0, len(content) - 200, 50) from position pos on,
\* with the best position and score found so far.
RECURSIVE ScanWindows(_, _, _, _, _)
ScanWindows(content, query_words, pos, best_position, best_score) ==
    IF pos >= content.length - ScanMargin
    THEN best_position
    ELSE IF Matches(content, query_words, pos) > best_score
         THEN ScanWindows(content, query_words, pos + Stride, pos,
                          Matches(content, query_words, pos))
         ELSE ScanWindows(content, query_words, pos + Stride, best_position,
                          best_score)

\* _extract_best_snippet
ExtractBestSnippet(content, query_words) ==
    LET best_position == ScanWindows(content, query_words, 0, -1, 0)
        start == MaxOf({0, best_position - LeadContext})
        end == Min(content.length, best_position + WindowSize)
    IN IF best_position >= 0
       THEN [first |-> start, last |-> end,
             lead |-> start > 0, trail |-> end < content.length]
       ELSE [first |-> 0, last |-> Min(content.length, FallbackLength),
             lead |-> FALSE, trail |-> content.length > FallbackLength]

ContentLengths == {0, 200, 201, 300, 301, 450, 1000}
WordPlaces == {0, 130, 397, 500, 700, 997}
ContentWords == {"cat", "Cat", "dog"}

SnippetContents ==
    {[length |-> n, occurrences |-> os] :
        n \in ContentLengths,
        os \in {S \in SUBSET [word : ContentWords, at : WordPlaces] :
                    Cardinality(S) <= MaxOccurrences}}

\* query.lower().split()
QueryWords == {<<"cat">>, <<"cat", "dog">>, <<"dog", "dog", "cat">>, <<"owl">>}

InitSnippet ==
    /\ pc = "snippet"
    /\ OrchIdle /\ SegIdle /\ CacheIdle /\ TruncIdle /\ RankIdle /\ ChatIdle
    /\ \E content \in SnippetContents, query_words \in QueryWords :
           /\ \A o \in content.occurrences :
                  o.at + Len(o.word) <= content.length
           /\ \A o1, o2 \in content.occurrences :
                  o1 # o2 => o1.at # o2.at
           /\ sn_in = [content |-> content, query_words |-> query_words]
    /\ sn_out = None

ExtractSnippet ==
    /\ pc = "snippet"
    /\ sn_out' = ExtractBestSnippet(sn_in.content, sn_in.query_words)
    /\ pc' = "snipped"
    /\ UNCHANGED <<orchVars, segVars, cacheVars, truncVars, rk_in, rk_out,
                   sn_in, ch_in, ch_out>>

NextSnippet == ExtractSnippet

SpecSnippet == InitSnippet /\ [][NextSnippet]_vars

\* The starts of the windows the scan looks at.
WindowStarts(content) ==
    {pos \in 0..content.length :
         pos % Stride = 0 /\ pos < content.length - ScanMargin}

\* The number of distinct query terms in the window at pos.
DistinctTerms(content, query_words, pos) ==
    Cardinality({w \in TermsOf(query_words) : WordInWindow(w, content, pos)})

\* C26: the snippet is the first window of the highest number of distinct
\* query terms, expanded by 100 characters on each side and clipped to the
\* content, with an ellipsis on exactly the sides where content was cut off.
C26_BestWindowExpandedBothSides ==
    (/\ pc = "snipped"
     /\ \E pos \in WindowStarts(sn_in.content) :
            DistinctTerms(sn_in.content, sn_in.query_words, pos) > 0) =>
        LET content == sn_in.content
            best == CHOOSE pos \in WindowStarts(content) :
                        \A h \in WindowStarts(content) :
                            \/ DistinctTerms(content, sn_in.query_words, h)
                                   < DistinctTerms(content,
                                                   sn_in.query_words, pos)
                            \/ /\ DistinctTerms(content, sn_in.query_words, h)
                                      = DistinctTerms(content,
                                                      sn_in.query_words, pos)
                               /\ pos <= h
        IN /\ sn_out.first = MaxOf({0, best - 100})
           /\ sn_out.last = Min(content.length, best + 400 + 100)
           /\ sn_out.lead = (sn_out.first > 0)
           /\ sn_out.trail = (sn_out.last < content.length)

\* ------------------------------------------------------------------------
\* Submission to the pool of ConcurrentProcessor (concurrent_processor.py)
\* ------------------------------------------------------------------------

\* The units submitted and not finished yet.
Outstanding == {u \in 1..Len(unit) : unit[u].state # "done"}

\* C27: a submission goes through only while fewer than max_workers units are
\* outstanding, the submitter being blocked otherwise, so never more than
\* max_workers units are outstanding; and never more than max_workers units
\* execute at a time.
C27_SubmissionBackpressure ==
    /\ Cardinality(Outstanding) <= max_workers
    /\ Cardinality(Running) <= max_workers

\* ------------------------------------------------------------------------
\* Summarization queries of SimpleChatHandler (chat_handler.py)
\* ------------------------------------------------------------------------

NotEnoughInformation == "I don't have enough information in the uploaded documents to answer this question. Please upload relevant documents or ask a different question."
BedrockNotAvailable == "AWS Bedrock not available. Please check your AWS credentials and configuration."
CouldNotProcess == "Sorry, I couldn't process your request at the moment."
ErrorProcessing == "Error processing summarization query: search failed"

\* simple_text_search(query, limit=3) returns at most 3 snippets
SnippetLimit == 3

\* text.strip().upper() of the texts the relevance check answers with
StripUpper(relevance_text) ==
    IF relevance_text = " not_relevant " THEN "NOT_RELEVANT"
    ELSE IF relevance_text = "Relevant" THEN "RELEVANT"
    ELSE relevance_text

\* response_body['content'][0]['text'].strip() of the texts the answering
\* call answers with
StripText(answer_text) ==
    IF answer_text = " The invoice total is 40. " THEN "The invoice total is 40."
    ELSE answer_text

\* "NOT_RELEVANT" in relevance_text
HasNotRelevant(relevance_text) ==
    relevance_text \in {"NOT_RELEVANT", "THE CONTENT IS NOT_RELEVANT."}

\* len("\n\n".join(relevant_snippets))
ContextLength(relevant_snippets) ==
    IF relevant_snippets = <<>> THEN 0
    ELSE SumOver(1..Len(relevant_snippets),
                 [j \in 1..Len(relevant_snippets) |->
                     Len(relevant_snippets[j])])
             + 2 * (Len(relevant_snippets) - 1)

\* What a call of the model does: it raises, or it answers with a text.
Raises == [kind |-> "raises"]
Answers(answer_text) == [kind |-> "text", text |-> answer_text]

\* handle_summarization_query without the override of a NOT_RELEVANT verdict
HandleSummarizationQueryStrict(in) ==
    IF ~in.bedrock_client
    THEN [success |-> FALSE, response |-> BedrockNotAvailable,
          snippets_used |-> None, context_length |-> None, calls |-> <<>>]
    ELSE IF in.search = Raises
    THEN [success |-> FALSE, response |-> ErrorProcessing,
          snippets_used |-> None, context_length |-> None, calls |-> <<>>]
    ELSE LET relevant_snippets == in.search.snippets
             not_relevant ==
                 /\ in.relevance # Raises
                 /\ HasNotRelevant(StripUpper(in.relevance.text))
         IN IF relevant_snippets = <<>>
            THEN [success |-> TRUE, response |-> NotEnoughInformation,
                  snippets_used |-> [kind |-> "int", val |-> 0],
                  context_length |-> [kind |-> "int", val |-> 0],
                  calls |-> <<>>]
            ELSE IF not_relevant
            THEN [success |-> TRUE, response |-> NotEnoughInformation,
                  snippets_used |->
                      [kind |-> "int", val |-> Len(relevant_snippets)],
                  context_length |->
                      [kind |-> "int",
                       val |-> ContextLength(relevant_snippets)],
                  calls |-> <<"relevance">>]
            ELSE [success |-> TRUE,
                  response |-> IF in.answer = Raises THEN CouldNotProcess
                               ELSE StripText(in.answer.text),
                  snippets_used |->
                      [kind |-> "int", val |-> Len(relevant_snippets)],
                  context_length |->
                      [kind |-> "int",
                       val |-> ContextLength(relevant_snippets)],
                  calls |-> <<"relevance", "answer">>]

\* handle_summarization_query: a NOT_RELEVANT verdict returns the canned
\* response only if there is no snippet, which cannot be at that point, so
\* with a snippet the answer is generated whatever the relevance check did.
HandleSummarizationQuery(in) ==
    IF ~in.bedrock_client
    THEN [success |-> FALSE, response |-> BedrockNotAvailable,
          snippets_used |-> None, context_length |-> None, calls |-> <<>>]
    ELSE IF in.search = Raises
    THEN [success |-> FALSE, response |-> ErrorProcessing,
          snippets_used |-> None, context_length |-> None, calls |-> <<>>]
    ELSE LET relevant_snippets == in.search.snippets
             not_relevant ==
                 /\ in.relevance # Raises
                 /\ HasNotRelevant(StripUpper(in.relevance.text))
         IN IF relevant_snippets = <<>>
            THEN [success |-> TRUE, response |-> NotEnoughInformation,
                  snippets_used |-> [kind |-> "int", val |-> 0],
                  context_length |-> [kind |-> "int", val |-> 0],
                  calls |-> <<>>]
            ELSE IF not_relevant /\ ~(Len(relevant_snippets) > 0)
            THEN [success |-> TRUE, response |-> NotEnoughInformation,
                  snippets_used |->
                      [kind |-> "int", val |-> Len(relevant_snippets)],
                  context_length |->
                      [kind |-> "int",
                       val |-> ContextLength(relevant_snippets)],
                  calls |-> <<"relevance">>]
            ELSE [success |-> TRUE,
                  response |-> IF in.answer = Raises THEN CouldNotProcess
                               ELSE StripText(in.answer.text),
                  snippets_used |->
                      [kind |-> "int", val |-> Len(relevant_snippets)],
                  context_length |->
                      [kind |-> "int",
                       val |-> ContextLength(relevant_snippets)],
                  calls |-> <<"relevance", "answer">>]

\* What simple_text_search does: it raises, or it returns up to 3 snippets.
Searches ==
    {Raises} \cup {[kind |-> "found", snippets |-> SubSeq(<<"s1", "s22", "s333">>, 1, n)] : n \in 0..SnippetLimit}

\* What the relevance check answers.
RelevanceOutcomes ==
    {Raises} \cup {Answers(t) : t \in {"RELEVANT", "Relevant", "NOT_RELEVANT", " not_relevant ", "THE CONTENT IS NOT_RELEVANT."}}

\* What the answering call answers: the prompt asks it for the sentence
\* NotEnoughInformation when the context does not hold the answer.
AnswerOutcomes ==
    {Raises} \cup {Answers(t) : t \in {" The invoice total is 40. ", NotEnoughInformation}}

InitChat ==
    /\ pc = "query"
    /\ OrchIdle /\ SegIdle /\ CacheIdle /\ TruncIdle /\ RankIdle
    /\ SnippetIdle
    /\ ch_in \in [bedrock_client : BOOLEAN, search : Searches,
                  relevance : RelevanceOutcomes, answer : AnswerOutcomes]
    /\ ch_out = None

SummarizationQuery ==
    /\ pc = "query"
    /\ ch_out' = HandleSummarizationQuery(ch_in)
    /\ pc' = "answered"
    /\ UNCHANGED <<orchVars, segVars, cacheVars, truncVars, rk_in, rk_out,
                   sn_in, sn_out, ch_in>>

NextChat == SummarizationQuery

SpecChat == InitChat /\ [][NextChat]_vars

\* The search of an answered query returned at least one snippet.
FoundSnippets ==
    /\ ch_in.bedrock_client
    /\ ch_in.search # Raises
    /\ ch_in.search.snippets # <<>>

\* The relevance check of an answered query gave a NOT_RELEVANT verdict.
VerdictNotRelevant ==
    /\ ch_in.relevance # Raises
    /\ HasNotRelevant(StripUpper(ch_in.relevance.text))

\* C28 as stated: with at least one snippet found, a NOT_RELEVANT verdict
\* does not stop the answer generation, and the response is the
\* not-enough-information sentence only when the search returned no snippet.
C28_NotEnoughInformationOnlyWithoutSnippets ==
    pc = "answered" =>
        /\ (FoundSnippets /\ VerdictNotRelevant) =>
               ch_out.calls = <<"relevance", "answer">>
        /\ ch_out.response = NotEnoughInformation => ~FoundSnippets

\* C28, amended: with at least one snippet found the answer generation is
\* always called, whatever the verdict, and the response is what it answered
\* (or the could-not-process sentence if it raised); the handler returns the
\* not-enough-information sentence without calling the answer generation
\* only when the search returned no snippet.
C28_AnswerGeneratedWheneverSnippets ==
    pc = "answered" =>
        /\ FoundSnippets =>
               /\ ch_out.calls = <<"relevance", "answer">>
               /\ ch_out.success
               /\ ch_out.response
                      = (IF ch_in.answer = Raises THEN CouldNotProcess
                         ELSE StripText(ch_in.answer.text))
               /\ ch_out.snippets_used
                      = [kind |-> "int", val |-> Len(ch_in.search.snippets)]
        /\ (ch_out.response = NotEnoughInformation
                /\ ch_out.calls # <<"relevance", "answer">>) =>
               /\ ch_in.bedrock_client
               /\ ch_in.search # Raises
               /\ ch_in.search.snippets = <<>>

\* Two snippets were found, the verdict was NOT_RELEVANT, and the response is
\* the answer that was generated.
C28_Witness ==
    /\ pc = "answered"
    /\ FoundSnippets
    /\ Len(ch_in.search.snippets) = 2
    /\ ch_in.relevance = Answers(" not_relevant ")
    /\ ch_out.calls = <<"relevance", "answer">>
    /\ ch_out.response = "The invoice total is 40."

\* ------------------------------------------------------------------------
\* Paragraphs of a page range (large_document_processor.py)
\* ------------------------------------------------------------------------

\* The text of the pages of a page chunk before _clean_text.
RawRangeText(page_chunk) ==
    Join(SubSeq(doc.pages, page_chunk.metadata.page_range.first,
                page_chunk.metadata.page_range.last), <<NL, NL>>)

\* The text_segment chunks returned for the pages of a page chunk.
SegmentsOf(page_chunk) ==
    {j \in 1..Len(seg_out.chunks) :
         /\ seg_out.chunks[j].metadata.chunk_type = "text_segment"
         /\ seg_out.chunks[j].metadata.page_range
                = page_chunk.metadata.page_range}

\* C30: _clean_text keeps the blank-line separators of a page-range text that
\* has several paragraphs, and a page_range chunk of several paragraphs that
\* is longer than max_chunk_size is re-split into more than one text_segment
\* chunk.
C30_CleanTextKeepsParagraphs ==
    pc = "pdf_processed" =>
        \A j \in 1..Len(seg_out.page_chunks) :
            LET page_chunk == seg_out.page_chunks[j]
            IN Cardinality(SolidParagraphs(RawRangeText(page_chunk))
                               \ {<<>>}) >= 2 =>
                   /\ IsSubstring(<<NL, NL>>, page_chunk.content)
                   /\ Len(page_chunk.content) > lp.max_chunk_size =>
                          Cardinality(SegmentsOf(page_chunk)) > 1

====
